---- MODULE Spec2Model ----
(***************************************************************************)
(* API-Key-Manager: the key verification pipeline (routes/keys.py), the    *)
(* sliding-window rate limiter and the usage limiter                       *)
(* (services/rate_limiter.py), the IP filter (utils/ip_utils.py) and the   *)
(* administrative handlers that change key records.                        *)
(*                                                                         *)
(* Time is counted in clock ticks; one second is TicksPerSec ticks, so     *)
(* that time.time() carries a fraction of a second.  Every handler runs in *)
(* its own database session: what it read at its SELECT is a snapshot, and *)
(* what it changed becomes visible at its commit.                          *)
(***************************************************************************)
EXTENDS Integers, Sequences, FiniteSets, TLC

VARIABLES
    now,      \* the system clock, in ticks (time.time(), datetime.utcnow())
    keys,     \* table api_keys: a sequence of records, the key id is the index
    window,   \* redis: key id -> members of the sorted set ratelimit:<id>
    ttl,      \* redis: key id -> tick at which ratelimit:<id> expires, or None
    audit,    \* table audit_logs, in commit order
    calls,    \* every verify_key request made so far: its locals and its response
    ops       \* how many handler calls were made so far

vars == <<now, keys, window, ttl, audit, calls, ops>>

-----------------------------------------------------------------------------
(* Bounds of the model *)

MaxTime == 2
MaxOps == 3
MaxKeys == 2

(* remaining_uses values tried on UsageLimiter.check_and_decrement *)
MaxUses == 3

TicksPerSec == 1

(* the database sessions that serve verify_key at the same time *)
Sessions == {"s1", "s2"}

(* Python's None, for the Optional[int] and Optional[datetime] columns *)
None == -99

(* Python's None, for the Optional[str] and Optional[dict] fields *)
NoneStr == "None"

(* app/config.py *)
DEFAULT_RATE_LIMIT == 1000
DEFAULT_RATE_LIMIT_WINDOW == 3600
FALLBACK_WINDOW == 3600

Max(a, b) == IF a >= b THEN a ELSE b

(* x or y, for Optional[int] *)
Or(x, y) == IF x = None \/ x = 0 THEN y ELSE x

(* bool(x), for Optional[int] *)
Truthy(x) == x # None /\ x # 0

-----------------------------------------------------------------------------
(* services/hashing.py.  Raw secrets are the numbers from FirstToken on,   *)
(* a range no other value of the model lies in; the keyed hash is an       *)
(* injective scrambling of them, the display prefix a truncation.          *)

(* secrets.token_urlsafe(32): the first token it can draw *)
FirstToken == 11

hash_api_key(raw_key) == 100 + ((raw_key * 3) % 7)

(* raw_key[:len(settings.API_KEY_PREFIX) + 8] + "..." *)
KeyPrefix(raw_key) == 200 + (raw_key \div 2)

(* generate_api_key: (raw_key, key_hash, key_prefix) for the token drawn *)
generate_api_key(token) ==
    [raw_key |-> token, key_hash |-> hash_api_key(token), key_prefix |-> KeyPrefix(token)]

-----------------------------------------------------------------------------
(* utils/ip_utils.py.  Addresses are AddrBits wide.  A client address or   *)
(* an allow-list entry is a record: kind "addr" (a single address), "cidr" *)
(* (a network, with its prefix length), "bad" (text that does not parse),  *)
(* "none" (no client address).                                             *)

AddrBits == 2

Pow2(n) == 2 ^ n

Addr(a) == [kind |-> "addr", addr |-> a, len |-> AddrBits]
Cidr(a, l) == [kind |-> "cidr", addr |-> a, len |-> l]
BadText == [kind |-> "bad", addr |-> 0, len |-> 0]
NoClient == [kind |-> "none", addr |-> 0, len |-> 0]

(* the allowed_ips column holding JSON null instead of a list *)
NullList == << [kind |-> "null", addr |-> 0, len |-> 0] >>

(* ipaddress.ip_address / ip_network raise ValueError on these *)
ParsesAsAddress(x) == x.kind = "addr" /\ x.addr \in 0 .. (Pow2(AddrBits) - 1)
ParsesAsNetwork(x) == x.kind = "cidr" /\ x.addr \in 0 .. (Pow2(AddrBits) - 1) /\ x.len \in 0 .. AddrBits

(* client_addr in ip_network(allowed, strict=False) *)
InNetwork(a, net) == (a \div Pow2(AddrBits - net.len)) = (net.addr \div Pow2(AddrBits - net.len))

EntryMatches(client, allowed) ==
    IF allowed.kind = "cidr"
    THEN ParsesAsNetwork(allowed) /\ InNetwork(client.addr, allowed)
    ELSE ParsesAsAddress(allowed) /\ client.addr = allowed.addr

(* the entry parses: ip_network for text with a "/", ip_address otherwise *)
EntryParses(allowed) ==
    IF allowed.kind = "cidr" THEN ParsesAsNetwork(allowed) ELSE ParsesAsAddress(allowed)

(* a malformed entry ending the loop instead of being skipped *)
is_ip_allowed_stops_at_malformed(client_ip, allowed_ips) ==
    IF allowed_ips = NullList \/ Len(allowed_ips) = 0 THEN TRUE
    ELSE IF ~ParsesAsAddress(client_ip) THEN FALSE
    ELSE \E i \in 1 .. Len(allowed_ips) :
             /\ EntryMatches(client_ip, allowed_ips[i])
             /\ \A j \in 1 .. (i - 1) : EntryParses(allowed_ips[j])

(* a client address that does not parse let through *)
is_ip_allowed_fails_open(client_ip, allowed_ips) ==
    IF allowed_ips = NullList \/ Len(allowed_ips) = 0 THEN TRUE
    ELSE IF ~ParsesAsAddress(client_ip) THEN TRUE
    ELSE \E i \in 1 .. Len(allowed_ips) : EntryMatches(client_ip, allowed_ips[i])

(* the client address parsed before the allow-list is looked at *)
is_ip_allowed_parses_first(client_ip, allowed_ips) ==
    IF ~ParsesAsAddress(client_ip) THEN FALSE
    ELSE IF allowed_ips = NullList \/ Len(allowed_ips) = 0 THEN TRUE
    ELSE \E i \in 1 .. Len(allowed_ips) : EntryMatches(client_ip, allowed_ips[i])

is_ip_allowed(client_ip, allowed_ips) ==
    IF allowed_ips = NullList \/ Len(allowed_ips) = 0 THEN TRUE
    ELSE IF ~ParsesAsAddress(client_ip) THEN FALSE
    ELSE \E i \in 1 .. Len(allowed_ips) : EntryMatches(client_ip, allowed_ips[i])

-----------------------------------------------------------------------------
(* services/rate_limiter.py: UsageLimiter *)

(* a refusal that hands back the remaining count it was given *)
check_and_decrement_echoes(remaining) ==
    IF remaining = None THEN [allowed |-> TRUE, new_remaining |-> None]
    ELSE IF remaining <= 0 THEN [allowed |-> FALSE, new_remaining |-> remaining]
    ELSE [allowed |-> TRUE, new_remaining |-> remaining - 1]

(* the quota test letting a key with no uses left through *)
check_and_decrement_allows_zero(remaining) ==
    IF remaining = None THEN [allowed |-> TRUE, new_remaining |-> None]
    ELSE IF remaining < 0 THEN [allowed |-> FALSE, new_remaining |-> 0]
    ELSE [allowed |-> TRUE, new_remaining |-> remaining - 1]

check_and_decrement(remaining) ==
    IF remaining = None THEN [allowed |-> TRUE, new_remaining |-> None]
    ELSE IF remaining <= 0 THEN [allowed |-> FALSE, new_remaining |-> 0]
    ELSE [allowed |-> TRUE, new_remaining |-> remaining - 1]

-----------------------------------------------------------------------------
(* services/rate_limiter.py: RateLimiter, against redis *)

(* what redis holds under ratelimit:<k> at this instant (EXPIRE drops it) *)
Members(k) == IF ttl[k] # None /\ now >= ttl[k] THEN {} ELSE window[k]

(* ZREMRANGEBYSCORE key lo hi: both ends inclusive *)
zremrangebyscore(S, lo, hi) == {m \in S : ~(lo <= m /\ m <= hi)}

(* the MULTI/EXEC pipeline of check_rate_limit, for a caller that read the *)
(* clock at tick t: the set left behind and ZCARD's answer                 *)
PipelineSet(k, t, window_seconds) ==
    zremrangebyscore(Members(k), 0, t - window_seconds * TicksPerSec) \cup {t}

PipelineCount(k, t, window_seconds) ==
    Cardinality(zremrangebyscore(Members(k), 0, t - window_seconds * TicksPerSec))

(* the entries ZCARD counted *)
PipelineSeen(k, t, window_seconds) ==
    zremrangebyscore(Members(k), 0, t - window_seconds * TicksPerSec)

(* ZCOUNT key lo hi: both ends inclusive *)
zcount(S, lo, hi) == Cardinality({m \in S : lo <= m /\ m <= hi})

(* get_usage lines 82-88, for a caller that read the clock at tick t *)
get_usage(k, t, window_seconds) ==
    zcount(Members(k), t - window_seconds * TicksPerSec, t)

(* the request just recorded not taken off what is left *)
RateRemaining_counts_self(max_requests, current_count) == Max(0, max_requests - current_count)

RateRemaining(max_requests, current_count) == Max(0, max_requests - current_count - 1)

RateAllowed(max_requests, current_count) == current_count < max_requests

(* int(now + window_seconds), in seconds *)
ResetAt(t, window_seconds) == (t + window_seconds * TicksPerSec) \div TicksPerSec

-----------------------------------------------------------------------------
(* The key record (models/api_key.py) and the requests of the handlers *)

Ip1 == Addr(1)
Ip2 == Addr(2)
ClientIps == {Ip1, Ip2}

(* request.client.host if request.client else None: also a caller without  *)
(* a client address, and one whose address text does not parse             *)
AnyClient == ClientIps \cup {NoClient, BadText}

(* KeyCreate bodies (schemas.py): rate_limit_max, rate_limit_window and    *)
(* remaining_uses are None or >= 1                                         *)
CreateReqs ==
    { [allowed_ips |-> <<>>, rate_limit_max |-> None, rate_limit_window |-> None,
       remaining_uses |-> None, expires_at |-> None, delete_protection |-> FALSE,
       refill_enabled |-> FALSE, refill_amount |-> None, refill_interval |-> None,
       owner_id |-> NoneStr, metadata |-> NoneStr, api_id |-> "api1"],
      [allowed_ips |-> <<>>, rate_limit_max |-> None, rate_limit_window |-> None,
       remaining_uses |-> 2, expires_at |-> None, delete_protection |-> FALSE,
       refill_enabled |-> FALSE, refill_amount |-> None, refill_interval |-> None,
       owner_id |-> "alice", metadata |-> "plan=free", api_id |-> "api1"],
      [allowed_ips |-> <<Ip1>>, rate_limit_max |-> 1, rate_limit_window |-> 2,
       remaining_uses |-> 1, expires_at |-> 0, delete_protection |-> FALSE,
       refill_enabled |-> FALSE, refill_amount |-> None, refill_interval |-> None,
       owner_id |-> "bob", metadata |-> NoneStr, api_id |-> "api1"],
      [allowed_ips |-> <<>>, rate_limit_max |-> 1, rate_limit_window |-> 2,
       remaining_uses |-> 2, expires_at |-> None, delete_protection |-> TRUE,
       refill_enabled |-> FALSE, refill_amount |-> None, refill_interval |-> None,
       owner_id |-> "alice", metadata |-> "plan=pro", api_id |-> "api1"] }

(* KeyCreate bodies that declare a refill policy: refill_amount and        *)
(* refill_interval are None or >= 1                                        *)
RefillReqs ==
    { [allowed_ips |-> <<>>, rate_limit_max |-> None, rate_limit_window |-> None,
       remaining_uses |-> 1, expires_at |-> None, delete_protection |-> FALSE,
       refill_enabled |-> TRUE, refill_amount |-> 1, refill_interval |-> 1,
       owner_id |-> NoneStr, metadata |-> NoneStr, api_id |-> "api1"],
      [allowed_ips |-> <<>>, rate_limit_max |-> 1, rate_limit_window |-> 2,
       remaining_uses |-> 2, expires_at |-> None, delete_protection |-> FALSE,
       refill_enabled |-> TRUE, refill_amount |-> 2, refill_interval |-> 2,
       owner_id |-> "alice", metadata |-> "plan=free", api_id |-> "api1"] }

(* KeyCreate bodies without an allow-list (create_key stores               *)
(* data.allowed_ips or []) and with a single address                      *)
IpReqs ==
    { [allowed_ips |-> <<>>, rate_limit_max |-> None, rate_limit_window |-> None,
       remaining_uses |-> None, expires_at |-> None, delete_protection |-> FALSE,
       refill_enabled |-> FALSE, refill_amount |-> None, refill_interval |-> None,
       owner_id |-> NoneStr, metadata |-> NoneStr, api_id |-> "api1"],
      [allowed_ips |-> <<Ip1>>, rate_limit_max |-> 1, rate_limit_window |-> 2,
       remaining_uses |-> None, expires_at |-> None, delete_protection |-> FALSE,
       refill_enabled |-> FALSE, refill_amount |-> None, refill_interval |-> None,
       owner_id |-> "bob", metadata |-> "plan=pro", api_id |-> "api1"] }

(* text that has a "/" and is no network: the prefix is too long *)
BadCidr == Cidr(0, AddrBits + 1)

(* KeyUpdate bodies that replace the allow-list: by JSON null, by two      *)
(* malformed entries followed by a network written with host bits set, by  *)
(* nothing at all                                                          *)
IpUpdateReqs ==
    { [allowed_ips |-> NullList],
      [allowed_ips |-> << BadText, BadCidr, Cidr(3, 1) >>],
      [allowed_ips |-> <<>>] }

(* KeyUpdate bodies (schemas.py): only the fields that were sent *)
UpdateReqs ==
    { [remaining_uses |-> -1],
      [remaining_uses |-> 1],
      [rate_limit_max |-> 0],
      [expires_at |-> MaxTime],
      [allowed_ips |-> NullList] }

NoKey ==
    [key_hash |-> 0, key_prefix |-> 0, api_id |-> NoneStr, owner_id |-> NoneStr, meta |-> NoneStr,
     allowed_ips |-> <<>>, rate_limit_max |-> None,
     rate_limit_window |-> None, remaining_uses |-> None, max_uses |-> None,
     expires_at |-> None, revoked |-> FALSE, revoked_at |-> None,
     delete_protection |-> FALSE, last_used_at |-> None,
     refill_enabled |-> FALSE, refill_amount |-> None, refill_interval |-> None,
     last_refill_at |-> None, created_at |-> None]

NoResp ==
    [valid |-> FALSE, error |-> "pending", key_id |-> 0, owner_id |-> NoneStr,
     metadata |-> NoneStr, remaining |-> None, reset_at |-> None]

(* the answer of a request whose handler raised: get_db rolls the session  *)
(* back and re-raises, and the framework answers HTTP 500                  *)
ServerError ==
    [valid |-> FALSE, error |-> "Internal Server Error", key_id |-> 0,
     owner_id |-> NoneStr, metadata |-> NoneStr, remaining |-> None, reset_at |-> None]

(* allowed, new_remaining before UsageLimiter.check_and_decrement is called *)
NoUsage == [allowed |-> FALSE, new_remaining |-> None]

KeyIds == 1 .. Len(keys)

(* select(ApiKey).where(ApiKey.key_hash == key_hash) *)
Lookup(h) == {i \in KeyIds : keys[i].key_hash = h}

(* AuditService.log: one row of audit_logs *)
AuditRow(k, action, context) == [api_key_id |-> k, action |-> action, context |-> context]

(* _log_verify *)
VerifyRow(k, success, reason) == AuditRow(k, "verify", [success |-> success, reason |-> reason])

-----------------------------------------------------------------------------
(* routes/keys.py: the administrative handlers.  Each runs in one session  *)
(* and commits its record change together with its audit rows.             *)

(* generate_api_key: secrets.token_urlsafe draws the raw key; the callers  *)
(* of verify_key present the raw key of a record, or one that was never    *)
(* issued                                                                  *)
Secrets == FirstToken .. (FirstToken + Len(keys))

(* meta=data.metadata or {} *)
OrEmptyDict(metadata) == IF metadata = NoneStr THEN "{}" ELSE metadata

(* the whole raw key kept as the display prefix *)
NewKey_keeps_raw(generated, data) ==
    [key_hash |-> generated.key_hash,
     key_prefix |-> generated.raw_key,
     api_id |-> data.api_id,
     owner_id |-> data.owner_id,
     meta |-> OrEmptyDict(data.metadata),
     allowed_ips |-> data.allowed_ips,
     rate_limit_max |-> Or(data.rate_limit_max, DEFAULT_RATE_LIMIT),
     rate_limit_window |-> Or(data.rate_limit_window, DEFAULT_RATE_LIMIT_WINDOW),
     remaining_uses |-> data.remaining_uses,
     max_uses |-> data.remaining_uses,
     expires_at |-> data.expires_at,
     revoked |-> FALSE,
     revoked_at |-> None,
     delete_protection |-> data.delete_protection,
     last_used_at |-> None,
     refill_enabled |-> data.refill_enabled,
     refill_amount |-> data.refill_amount,
     refill_interval |-> data.refill_interval,
     last_refill_at |-> None,
     created_at |-> now]

(* create_key lines 57-74: the record built from the request and from what *)
(* generate_api_key returned                                               *)
NewKey(generated, data) ==
    [key_hash |-> generated.key_hash,
     key_prefix |-> generated.key_prefix,
     api_id |-> data.api_id,
     owner_id |-> data.owner_id,
     meta |-> OrEmptyDict(data.metadata),
     allowed_ips |-> data.allowed_ips,
     rate_limit_max |-> Or(data.rate_limit_max, DEFAULT_RATE_LIMIT),
     rate_limit_window |-> Or(data.rate_limit_window, DEFAULT_RATE_LIMIT_WINDOW),
     remaining_uses |-> data.remaining_uses,
     max_uses |-> data.remaining_uses,
     expires_at |-> data.expires_at,
     revoked |-> FALSE,
     revoked_at |-> None,
     delete_protection |-> data.delete_protection,
     last_used_at |-> None,
     refill_enabled |-> data.refill_enabled,
     refill_amount |-> data.refill_amount,
     refill_interval |-> data.refill_interval,
     last_refill_at |-> None,
     created_at |-> now]

(* the new key starting from what the old key had left *)
RotatedKey_keeps_remaining(generated, old_key) ==
    [key_hash |-> generated.key_hash,
     key_prefix |-> generated.key_prefix,
     api_id |-> old_key.api_id,
     owner_id |-> old_key.owner_id,
     meta |-> old_key.meta,
     allowed_ips |-> old_key.allowed_ips,
     rate_limit_max |-> old_key.rate_limit_max,
     rate_limit_window |-> old_key.rate_limit_window,
     remaining_uses |-> old_key.remaining_uses,
     max_uses |-> old_key.max_uses,
     expires_at |-> old_key.expires_at,
     revoked |-> FALSE,
     revoked_at |-> None,
     delete_protection |-> old_key.delete_protection,
     last_used_at |-> None,
     refill_enabled |-> old_key.refill_enabled,
     refill_amount |-> old_key.refill_amount,
     refill_interval |-> old_key.refill_interval,
     last_refill_at |-> None,
     created_at |-> now]

(* rotate_key lines 266-283: the record built from the old key *)
RotatedKey(generated, old_key) ==
    [key_hash |-> generated.key_hash,
     key_prefix |-> generated.key_prefix,
     api_id |-> old_key.api_id,
     owner_id |-> old_key.owner_id,
     meta |-> old_key.meta,
     allowed_ips |-> old_key.allowed_ips,
     rate_limit_max |-> old_key.rate_limit_max,
     rate_limit_window |-> old_key.rate_limit_window,
     remaining_uses |-> old_key.max_uses,
     max_uses |-> old_key.max_uses,
     expires_at |-> old_key.expires_at,
     revoked |-> FALSE,
     revoked_at |-> None,
     delete_protection |-> old_key.delete_protection,
     last_used_at |-> None,
     refill_enabled |-> old_key.refill_enabled,
     refill_amount |-> old_key.refill_amount,
     refill_interval |-> old_key.refill_interval,
     last_refill_at |-> None,
     created_at |-> now]

(* an update that also writes the revoked column *)
UpdatedKey_clears_revoked(key, update_data) ==
    [f \in DOMAIN key |-> IF f \in DOMAIN update_data THEN update_data[f]
                          ELSE IF f = "revoked" THEN FALSE ELSE key[f]]

(* update_key lines 170-172: setattr for every field that was sent *)
UpdatedKey(key, update_data) ==
    [f \in DOMAIN key |-> IF f \in DOMAIN update_data THEN update_data[f] ELSE key[f]]

(* key.revoked = True; key.revoked_at = datetime.utcnow() *)
RevokedKey(key) == [key EXCEPT !.revoked = TRUE, !.revoked_at = now]

(* schemas.py KeyResponse: what get_key, list_keys and update_key answer   *)
(* for a record                                                            *)
KeyResponse(id, key) ==
    [id |-> id, key_prefix |-> key.key_prefix, api_id |-> key.api_id,
     owner_id |-> key.owner_id, metadata |-> key.meta,
     allowed_ips |-> key.allowed_ips, rate_limit_max |-> key.rate_limit_max,
     rate_limit_window |-> key.rate_limit_window, remaining_uses |-> key.remaining_uses,
     max_uses |-> key.max_uses, refill_enabled |-> key.refill_enabled,
     expires_at |-> key.expires_at, revoked |-> key.revoked,
     delete_protection |-> key.delete_protection, created_at |-> key.created_at,
     last_used_at |-> key.last_used_at]

(* schemas.py KeyCreateResponse: what create_key and rotate_key answer *)
KeyCreateResponse(id, generated, key) ==
    [id |-> id, key |-> generated.raw_key, key_prefix |-> generated.key_prefix,
     created_at |-> key.created_at]

(* the unique index on api_keys.key_hash rejects the INSERT of a second    *)
(* record with the same hash                                               *)
create_key(raw_key, data) ==
    /\ Len(keys) < MaxKeys
    /\ ops < MaxOps
    /\ Lookup(hash_api_key(raw_key)) = {}
    /\ keys' = Append(keys, NewKey(generate_api_key(raw_key), data))
    /\ audit' = Append(audit, AuditRow(Len(keys) + 1, "create", <<>>))
    /\ ops' = ops + 1
    /\ UNCHANGED <<now, window, ttl, calls>>

update_key(key_id, update_data) ==
    /\ key_id \in KeyIds
    /\ ops < MaxOps
    /\ keys' = [keys EXCEPT ![key_id] = UpdatedKey(keys[key_id], update_data)]
    /\ audit' = Append(audit, AuditRow(key_id, "update", [updated_fields |-> DOMAIN update_data]))
    /\ ops' = ops + 1
    /\ UNCHANGED <<now, window, ttl, calls>>

(* the protection test taking no notice of force *)
RevokeRefused_ignores_force(key, force) == key.delete_protection

(* line 217: if key.delete_protection and not force *)
RevokeRefused(key, force) == key.delete_protection /\ ~force

(* lines 216-234.  A refused call raises HTTP 400 before anything is       *)
(* written, and get_db rolls its session back                              *)
revoke_key(key_id, force) ==
    /\ key_id \in KeyIds
    /\ ops < MaxOps
    /\ IF RevokeRefused(keys[key_id], force)
       THEN UNCHANGED <<keys, audit>>
       ELSE /\ keys' = [keys EXCEPT ![key_id] = RevokedKey(keys[key_id])]
            /\ audit' = Append(audit, AuditRow(key_id, "revoke", <<>>))
    /\ ops' = ops + 1
    /\ UNCHANGED <<now, window, ttl, calls>>

(* the INSERT of the new record accepted whatever its hash *)
rotate_key_no_unique_index(key_id, raw_key) ==
    /\ key_id \in KeyIds
    /\ Len(keys) < MaxKeys
    /\ ops < MaxOps
    /\ keys' = Append([keys EXCEPT ![key_id] = RevokedKey(keys[key_id])],
                      RotatedKey(generate_api_key(raw_key), keys[key_id]))
    /\ audit' = audit \o << AuditRow(key_id, "rotate_old", [new_key_id |-> Len(keys) + 1]),
                            AuditRow(Len(keys) + 1, "rotate_new", [old_key_id |-> key_id]) >>
    /\ ops' = ops + 1
    /\ UNCHANGED <<now, window, ttl, calls>>

rotate_key(key_id, raw_key) ==
    /\ key_id \in KeyIds
    /\ Len(keys) < MaxKeys
    /\ ops < MaxOps
    /\ Lookup(hash_api_key(raw_key)) = {}
    /\ keys' = Append([keys EXCEPT ![key_id] = RevokedKey(keys[key_id])],
                      RotatedKey(generate_api_key(raw_key), keys[key_id]))
    /\ audit' = audit \o << AuditRow(key_id, "rotate_old", [new_key_id |-> Len(keys) + 1]),
                            AuditRow(Len(keys) + 1, "rotate_new", [old_key_id |-> key_id]) >>
    /\ ops' = ops + 1
    /\ UNCHANGED <<now, window, ttl, calls>>

-----------------------------------------------------------------------------
(* routes/keys.py: verify_key.  The handler is cut where it waits for the  *)
(* database or for redis: the SELECT with the checks that need no store,   *)
(* the redis pipeline, the ZREM of a denied request, and the flush/commit. *)
(* A request is a record of calls: pc is where the handler stands, key the *)
(* id of the record found (0: none), key_hash the hash of the secret that   *)
(* was presented, snap the record as the session loaded                    *)
(* it, t the clock value it read, resp the response once pc = "done";      *)
(* nlog counts the audit rows it wrote and evald lists the checks it ran;  *)
(* seen is the set of entries its pipeline counted (what ZREMRANGEBYSCORE   *)
(* left); usage is what check_and_decrement returned to it; fault names the *)
(* collaborator that raised ("" when none did) and decided the response    *)
(* the handler had computed when that happened.                            *)

InFlight == {i \in DOMAIN calls : calls[i].pc # "done"}

(* the expiry check comparing against the wrong bound, one tick late *)
LocalChecks_late_expiry(api_key, client_ip, utcnow) ==
    IF api_key.revoked
    THEN [reason |-> "revoked", evald |-> <<"lookup", "revoked">>]
    ELSE IF api_key.expires_at # None /\ utcnow > api_key.expires_at + 1
    THEN [reason |-> "expired", evald |-> <<"lookup", "revoked", "expired">>]
    ELSE IF ~is_ip_allowed(client_ip, api_key.allowed_ips)
    THEN [reason |-> "ip_blocked", evald |-> <<"lookup", "revoked", "expired", "ip">>]
    ELSE [reason |-> "", evald |-> <<"lookup", "revoked", "expired", "ip">>]

(* the expiry check placed before the revocation check *)
LocalChecks_expiry_first(api_key, client_ip, utcnow) ==
    IF api_key.expires_at # None /\ utcnow > api_key.expires_at
    THEN [reason |-> "expired", evald |-> <<"lookup", "expired">>]
    ELSE IF api_key.revoked
    THEN [reason |-> "revoked", evald |-> <<"lookup", "expired", "revoked">>]
    ELSE IF ~is_ip_allowed(client_ip, api_key.allowed_ips)
    THEN [reason |-> "ip_blocked", evald |-> <<"lookup", "expired", "revoked", "ip">>]
    ELSE [reason |-> "", evald |-> <<"lookup", "expired", "revoked", "ip">>]

(* lines 351-365: the checks on the loaded record, in the handler's order; *)
(* reason "" when all pass                                                 *)
LocalChecks(api_key, client_ip, utcnow) ==
    IF api_key.revoked
    THEN [reason |-> "revoked", evald |-> <<"lookup", "revoked">>]
    ELSE IF api_key.expires_at # None /\ utcnow > api_key.expires_at
    THEN [reason |-> "expired", evald |-> <<"lookup", "revoked", "expired">>]
    ELSE IF ~is_ip_allowed(client_ip, api_key.allowed_ips)
    THEN [reason |-> "ip_blocked", evald |-> <<"lookup", "revoked", "expired", "ip">>]
    ELSE [reason |-> "", evald |-> <<"lookup", "revoked", "expired", "ip">>]

(* the error string of the response for an audit reason *)
ErrorOf(reason) ==
    CASE reason = "revoked" -> "Key revoked"
      [] reason = "expired" -> "Key expired"
      [] reason = "ip_blocked" -> "IP not allowed"
      [] reason = "rate_limited" -> "Rate limit exceeded"
      [] reason = "usage_exceeded" -> "Usage limit exceeded"
      [] OTHER -> ""

Failure(error, remaining, reset_at) ==
    [valid |-> FALSE, error |-> error, key_id |-> 0, owner_id |-> NoneStr, metadata |-> NoneStr,
     remaining |-> remaining, reset_at |-> reset_at]

(* lines 411-418: the response of a verification that passed every check *)
Success(k, api_key, remaining, reset_at) ==
    [valid |-> TRUE, error |-> "", key_id |-> k, owner_id |-> api_key.owner_id,
     metadata |-> api_key.meta, remaining |-> remaining, reset_at |-> reset_at]

(* the IP branch returning without its audit row *)
log_verify_skips_ip(k, success, reason) ==
    IF reason = "ip_blocked" THEN <<>> ELSE << VerifyRow(k, success, reason) >>

(* the row written with the reason left out *)
log_verify_drops_reason(k, success, reason) == << VerifyRow(k, success, NoneStr) >>

(* await _log_verify(db, api_key, request, success, reason): the rows it adds *)
log_verify(k, success, reason) == << VerifyRow(k, success, reason) >>

(* lines 371 and 391: which store step follows the local checks *)
NextStep(api_key) == IF Truthy(api_key.rate_limit_max) THEN "rate" ELSE "usage"

NewCall(k, api_key, client_ip) ==
    [pc |-> "done", key |-> k, snap |-> api_key, ip |-> client_ip, t |-> now,
     remaining |-> None, reset_at |-> None, resp |-> NoResp, nlog |-> 0, evald |-> <<"lookup">>,
     usage |-> NoUsage, fault |-> "", decided |-> NoResp, key_hash |-> 0, seen |-> {}]

(* lines 339-365: the request after the SELECT and the local checks *)
StartedCall(raw_key, client_ip) ==
    LET found == Lookup(hash_api_key(raw_key))
        k == CHOOSE i \in found : TRUE
        c == LocalChecks(keys[k], client_ip, now)
        h == hash_api_key(raw_key)
    IN  IF found = {}
        THEN [NewCall(0, NoKey, client_ip) EXCEPT
                 !.resp = Failure("Key not found", None, None), !.key_hash = h]
        ELSE IF c.reason # ""
        THEN [NewCall(k, keys[k], client_ip) EXCEPT
                 !.resp = Failure(ErrorOf(c.reason), None, None),
                 !.nlog = Len(log_verify(k, FALSE, c.reason)), !.evald = c.evald,
                 !.key_hash = h]
        ELSE [NewCall(k, keys[k], client_ip) EXCEPT
                 !.pc = NextStep(keys[k]), !.evald = c.evald, !.key_hash = h]

(* an audit row written for a secret that matches no record *)
StartRows_logs_miss(raw_key, client_ip) ==
    LET found == Lookup(hash_api_key(raw_key))
        k == CHOOSE i \in found : TRUE
        c == LocalChecks(keys[k], client_ip, now)
    IN  IF found = {} THEN log_verify(0, FALSE, "not_found")
        ELSE IF c.reason # "" THEN log_verify(k, FALSE, c.reason) ELSE <<>>

(* lines 353, 358, 364: the audit rows of a request that fails a local check *)
StartRows(raw_key, client_ip) ==
    LET found == Lookup(hash_api_key(raw_key))
        k == CHOOSE i \in found : TRUE
        c == LocalChecks(keys[k], client_ip, now)
    IN  IF found # {} /\ c.reason # "" THEN log_verify(k, FALSE, c.reason) ELSE <<>>

(* the rate-limit entry recorded before the IP check has answered *)
VerifyStart_records_first(raw_key, client_ip) ==
    /\ ops < MaxOps
    /\ Cardinality(InFlight) < Cardinality(Sessions)
    /\ ops' = ops + 1
    /\ calls' = Append(calls, StartedCall(raw_key, client_ip))
    /\ audit' = audit \o StartRows(raw_key, client_ip)
    /\ window' = IF StartedCall(raw_key, client_ip).resp.error = "IP not allowed"
                 THEN [window EXCEPT ![StartedCall(raw_key, client_ip).key] = @ \cup {now}]
                 ELSE window
    /\ UNCHANGED <<now, keys, ttl>>

VerifyStart(raw_key, client_ip) ==
    /\ ops < MaxOps
    /\ Cardinality(InFlight) < Cardinality(Sessions)
    /\ ops' = ops + 1
    /\ calls' = Append(calls, StartedCall(raw_key, client_ip))
    /\ audit' = audit \o StartRows(raw_key, client_ip)
    /\ UNCHANGED <<now, keys, window, ttl>>

(* window_seconds=api_key.rate_limit_window or 3600 *)
WindowOf(api_key) == Or(api_key.rate_limit_window, FALLBACK_WINDOW)

(* one sorted set for all keys: the redis key built without the key id *)
RateExec_shared_window(i) ==
    /\ calls[i].pc = "rate"
    /\ LET t == calls[i].t
           w == WindowOf(calls[i].snap)
           current_count == PipelineCount(1, t, w)
           allowed == RateAllowed(calls[i].snap.rate_limit_max, current_count)
       IN  /\ window' = [window EXCEPT ![1] = PipelineSet(1, t, w)]
           /\ ttl' = [ttl EXCEPT ![1] = now + w * TicksPerSec]
           /\ calls' = [calls EXCEPT ![i].pc = IF allowed THEN "usage" ELSE "deny",
                                     ![i].remaining = RateRemaining(calls[i].snap.rate_limit_max, current_count),
                                     ![i].reset_at = ResetAt(t, w),
                                     ![i].seen = PipelineSeen(1, t, w),
                                     ![i].evald = Append(@, "rate")]
    /\ UNCHANGED <<now, keys, audit, ops>>

(* check_rate_limit lines 43-71: the pipeline runs as one redis transaction *)
RateExec(i) ==
    /\ calls[i].pc = "rate"
    /\ LET k == calls[i].key
           t == calls[i].t
           w == WindowOf(calls[i].snap)
           current_count == PipelineCount(k, t, w)
           allowed == RateAllowed(calls[i].snap.rate_limit_max, current_count)
       IN  /\ window' = [window EXCEPT ![k] = PipelineSet(k, t, w)]
           /\ ttl' = [ttl EXCEPT ![k] = now + w * TicksPerSec]
           /\ calls' = [calls EXCEPT ![i].pc = IF allowed THEN "usage" ELSE "deny",
                                     ![i].remaining = RateRemaining(calls[i].snap.rate_limit_max, current_count),
                                     ![i].reset_at = ResetAt(t, w),
                                     ![i].seen = PipelineSeen(k, t, w),
                                     ![i].evald = Append(@, "rate")]
    /\ UNCHANGED <<now, keys, audit, ops>>

(* the usage quota debited before the rate-limit answer is looked at *)
RateDeny_debits(i) ==
    /\ calls[i].pc = "deny"
    /\ LET k == calls[i].key
           rows == log_verify(k, FALSE, "rate_limited")
       IN  /\ window' = [window EXCEPT ![k] = Members(k) \ {calls[i].t}]
           /\ audit' = audit \o rows
           /\ keys' = [keys EXCEPT ![k].remaining_uses =
                          check_and_decrement(calls[i].snap.remaining_uses).new_remaining]
           /\ calls' = [calls EXCEPT ![i].pc = "done",
                                     ![i].remaining = 0,
                                     ![i].resp = Failure(ErrorOf("rate_limited"), 0, calls[i].reset_at),
                                     ![i].nlog = @ + Len(rows)]
    /\ UNCHANGED <<now, ttl, ops>>

(* check_rate_limit lines 73-76, then verify_key lines 381-388 *)
RateDeny(i) ==
    /\ calls[i].pc = "deny"
    /\ LET k == calls[i].key
           rows == log_verify(k, FALSE, "rate_limited")
       IN  /\ window' = [window EXCEPT ![k] = Members(k) \ {calls[i].t}]
           /\ audit' = audit \o rows
           /\ calls' = [calls EXCEPT ![i].pc = "done",
                                     ![i].remaining = 0,
                                     ![i].resp = Failure(ErrorOf("rate_limited"), 0, calls[i].reset_at),
                                     ![i].nlog = @ + Len(rows)]
    /\ UNCHANGED <<now, keys, ttl, ops>>

(* lines 391-418: the usage check on the loaded record, and the flush and  *)
(* commit of the record change with the audit row                          *)
UsageCommit(i) ==
    /\ calls[i].pc = "usage"
    /\ LET k == calls[i].key
           configured == calls[i].snap.remaining_uses # None
           u == check_and_decrement(calls[i].snap.remaining_uses)
           denied == log_verify(k, FALSE, "usage_exceeded")
           granted == log_verify(k, TRUE, "None")
       IN  IF configured /\ ~u.allowed
           THEN /\ audit' = audit \o denied
                /\ calls' = [calls EXCEPT ![i].pc = "done",
                                          ![i].resp = Failure(ErrorOf("usage_exceeded"), None, None),
                                          ![i].nlog = @ + Len(denied),
                                          ![i].usage = u,
                                          ![i].evald = Append(@, "usage")]
                /\ keys' = keys
           ELSE /\ keys' = [keys EXCEPT ![k].remaining_uses = IF configured THEN u.new_remaining ELSE @,
                                        ![k].last_used_at = now]
                /\ audit' = audit \o granted
                /\ calls' = [calls EXCEPT ![i].pc = "done",
                                          ![i].resp = Success(k, calls[i].snap, calls[i].remaining,
                                                              calls[i].reset_at),
                                          ![i].nlog = @ + Len(granted),
                                          ![i].usage = IF configured THEN u ELSE @,
                                          ![i].evald = IF configured THEN Append(@, "usage") ELSE @]
    /\ UNCHANGED <<now, window, ttl, ops>>

-----------------------------------------------------------------------------
(* verify_key when a collaborator raises.  Nothing in verify_key, in       *)
(* _log_verify, in AuditService.log or in check_rate_limit catches an      *)
(* exception: it leaves the handler, get_db rolls the session back         *)
(* (database.py lines 54-56) and the caller gets no KeyVerifyResponse.     *)
(* What redis has already executed is not part of the session.             *)

(* the request as it ends when `fault` raised; decided is the response it  *)
(* had computed by then                                                    *)
Faulted(call, fault, decided) ==
    [call EXCEPT !.pc = "done", !.fault = fault, !.decided = decided,
                 !.resp = ServerError, !.nlog = 0]

(* lines 353, 358, 364: AuditService.log raises for a request that failed  *)
(* a local check                                                          *)
AuditFaultStart(raw_key, client_ip) ==
    /\ ops < MaxOps
    /\ InFlight = {}
    /\ LET c == StartedCall(raw_key, client_ip)
       IN  /\ c.key # 0
           /\ c.pc = "done"
           /\ calls' = Append(calls, Faulted(c, "audit", c.resp))
    /\ ops' = ops + 1
    /\ UNCHANGED <<now, keys, window, ttl, audit>>

(* check_rate_limit line 63: pipe.execute() raises, either before redis    *)
(* ran the transaction or after it did and the reply was lost              *)
RateFault(i, executed) ==
    /\ calls[i].pc = "rate"
    /\ LET k == calls[i].key
           w == WindowOf(calls[i].snap)
       IN  /\ window' = IF executed
                        THEN [window EXCEPT ![k] = PipelineSet(k, calls[i].t, w)]
                        ELSE window
           /\ ttl' = IF executed THEN [ttl EXCEPT ![k] = now + w * TicksPerSec] ELSE ttl
           /\ calls' = [calls EXCEPT
                           ![i] = Faulted([@ EXCEPT !.evald = Append(@, "rate")], "redis", NoResp)]
    /\ UNCHANGED <<now, keys, audit, ops>>

(* line 382: AuditService.log raises for a rate-limited request, after the *)
(* ZREM of check_rate_limit                                                *)
AuditFaultDeny(i) ==
    /\ calls[i].pc = "deny"
    /\ LET k == calls[i].key
       IN  /\ window' = [window EXCEPT ![k] = Members(k) \ {calls[i].t}]
           /\ calls' = [calls EXCEPT
                           ![i] = Faulted([@ EXCEPT !.remaining = 0], "audit",
                                          Failure(ErrorOf("rate_limited"), 0, calls[i].reset_at))]
    /\ UNCHANGED <<now, keys, ttl, audit, ops>>

(* lines 391-409: AuditService.log raises after the usage check; the       *)
(* assignments of lines 403 and 406 are rolled back with the session       *)
AuditFaultUsage(i) ==
    /\ calls[i].pc = "usage"
    /\ LET k == calls[i].key
           configured == calls[i].snap.remaining_uses # None
           u == check_and_decrement(calls[i].snap.remaining_uses)
           decided == IF configured /\ ~u.allowed
                      THEN Failure(ErrorOf("usage_exceeded"), None, None)
                      ELSE Success(k, calls[i].snap, calls[i].remaining, calls[i].reset_at)
       IN  calls' = [calls EXCEPT
                        ![i] = Faulted([@ EXCEPT !.usage = IF configured THEN u ELSE @,
                                                 !.evald = IF configured THEN Append(@, "usage") ELSE @],
                                       "audit", decided)]
    /\ UNCHANGED <<now, keys, window, ttl, audit, ops>>

-----------------------------------------------------------------------------
(* the clock advances *)
Tick ==
    /\ now < MaxTime
    /\ now' = now + 1
    /\ UNCHANGED <<keys, window, ttl, audit, calls, ops>>

(* the service with one key issued by create_key *)
Init ==
    /\ now = 0
    /\ \E data \in CreateReqs : keys = << NewKey(generate_api_key(FirstToken), data) >>
    /\ audit = << AuditRow(1, "create", <<>>) >>
    /\ window = [k \in 1 .. MaxKeys |-> {}]
    /\ ttl = [k \in 1 .. MaxKeys |-> None]
    /\ calls = <<>>
    /\ ops = 0

(* concurrent verifications of the issued key, which may be revoked *)
Next ==
    \/ Tick
    \/ \E k \in KeyIds, force \in BOOLEAN : revoke_key(k, force)
    \/ \E raw \in Secrets, ip \in ClientIps : VerifyStart(raw, ip)
    \/ \E i \in DOMAIN calls : RateExec(i)
    \/ \E i \in DOMAIN calls : RateDeny(i)
    \/ \E i \in DOMAIN calls : UsageCommit(i)

Spec == Init /\ [][Next]_vars

(* verifications one after the other: a request starts when none is in flight *)
VerifySeq(raw_key, client_ip) == InFlight = {} /\ VerifyStart(raw_key, client_ip)

NextSeq ==
    \/ Tick
    \/ \E raw \in Secrets, ip \in ClientIps : VerifySeq(raw, ip)
    \/ \E i \in DOMAIN calls : RateExec(i)
    \/ \E i \in DOMAIN calls : RateDeny(i)
    \/ \E i \in DOMAIN calls : UsageCommit(i)

SpecSeq == Init /\ [][NextSeq]_vars

(* the service before any key is issued *)
InitEmpty ==
    /\ now = 0
    /\ keys = <<>>
    /\ audit = <<>>
    /\ window = [k \in 1 .. MaxKeys |-> {}]
    /\ ttl = [k \in 1 .. MaxKeys |-> None]
    /\ calls = <<>>
    /\ ops = 0

(* the administrative handlers, with verifications one after the other *)
NextAdmin ==
    \/ Tick
    \/ \E raw \in Secrets, data \in CreateReqs : create_key(raw, data)
    \/ \E k \in KeyIds, data \in UpdateReqs : update_key(k, data)
    \/ \E k \in KeyIds, force \in BOOLEAN : revoke_key(k, force)
    \/ \E k \in KeyIds, raw \in Secrets : rotate_key(k, raw)
    \/ \E raw \in Secrets, ip \in ClientIps : VerifySeq(raw, ip)
    \/ \E i \in DOMAIN calls : RateExec(i)
    \/ \E i \in DOMAIN calls : RateDeny(i)
    \/ \E i \in DOMAIN calls : UsageCommit(i)

SpecAdmin == InitEmpty /\ [][NextAdmin]_vars

(* the life of an issued key: its owner updates and revokes it while it is *)
(* verified, one request after the other                                   *)
NextLife ==
    \/ Tick
    \/ \E k \in KeyIds, data \in UpdateReqs : update_key(k, data)
    \/ \E k \in KeyIds, force \in BOOLEAN : revoke_key(k, force)
    \/ \E raw \in Secrets, ip \in ClientIps : VerifySeq(raw, ip)
    \/ \E i \in DOMAIN calls : RateExec(i)
    \/ \E i \in DOMAIN calls : RateDeny(i)
    \/ \E i \in DOMAIN calls : UsageCommit(i)

SpecLife == Init /\ [][NextLife]_vars

(* verifications one after the other while redis and the audit write may   *)
(* fail                                                                    *)
NextFault ==
    \/ Tick
    \/ \E raw \in Secrets, ip \in ClientIps : VerifySeq(raw, ip)
    \/ \E i \in DOMAIN calls : RateExec(i)
    \/ \E i \in DOMAIN calls : RateDeny(i)
    \/ \E i \in DOMAIN calls : UsageCommit(i)
    \/ \E raw \in Secrets, ip \in ClientIps : AuditFaultStart(raw, ip)
    \/ \E i \in DOMAIN calls, executed \in BOOLEAN : RateFault(i, executed)
    \/ \E i \in DOMAIN calls : AuditFaultDeny(i)
    \/ \E i \in DOMAIN calls : AuditFaultUsage(i)

SpecFault == Init /\ [][NextFault]_vars

(* callers of every kind, with and without a usable client address, while *)
(* the owner replaces the allow-list                                       *)
NextIp ==
    \/ Tick
    \/ \E k \in KeyIds, data \in IpUpdateReqs : update_key(k, data)
    \/ \E raw \in Secrets, ip \in AnyClient : VerifySeq(raw, ip)
    \/ \E i \in DOMAIN calls : RateExec(i)
    \/ \E i \in DOMAIN calls : RateDeny(i)
    \/ \E i \in DOMAIN calls : UsageCommit(i)

(* the service with one key issued, with or without an allow-list *)
InitIp ==
    /\ now = 0
    /\ \E data \in IpReqs : keys = << NewKey(generate_api_key(FirstToken), data) >>
    /\ audit = << AuditRow(1, "create", <<>>) >>
    /\ window = [k \in 1 .. MaxKeys |-> {}]
    /\ ttl = [k \in 1 .. MaxKeys |-> None]
    /\ calls = <<>>
    /\ ops = 0

SpecIp == InitIp /\ [][NextIp]_vars

(* the service with one key issued with a refill policy *)
InitRefill ==
    /\ now = 0
    /\ \E data \in RefillReqs : keys = << NewKey(generate_api_key(FirstToken), data) >>
    /\ audit = << AuditRow(1, "create", <<>>) >>
    /\ window = [k \in 1 .. MaxKeys |-> {}]
    /\ ttl = [k \in 1 .. MaxKeys |-> None]
    /\ calls = <<>>
    /\ ops = 0

SpecRefill == InitRefill /\ [][NextSeq]_vars

(* KeyCreate bodies of two kinds of key: one with a ceiling of one request *)
(* and a quota of one use, one with neither                                *)
PairReqs ==
    { [allowed_ips |-> <<>>, rate_limit_max |-> 1, rate_limit_window |-> 2,
       remaining_uses |-> 1, expires_at |-> None, delete_protection |-> FALSE,
       refill_enabled |-> FALSE, refill_amount |-> None, refill_interval |-> None,
       owner_id |-> "alice", metadata |-> "plan=free", api_id |-> "api1"],
      [allowed_ips |-> <<>>, rate_limit_max |-> None, rate_limit_window |-> None,
       remaining_uses |-> None, expires_at |-> None, delete_protection |-> FALSE,
       refill_enabled |-> FALSE, refill_amount |-> None, refill_interval |-> None,
       owner_id |-> "bob", metadata |-> NoneStr, api_id |-> "api1"] }

(* the service with two keys issued *)
InitPair ==
    /\ now = 0
    /\ \E a \in PairReqs, b \in PairReqs :
           keys = << NewKey(generate_api_key(FirstToken), a),
                     NewKey(generate_api_key(FirstToken + 1), b) >>
    /\ audit = << AuditRow(1, "create", <<>>), AuditRow(2, "create", <<>>) >>
    /\ window = [k \in 1 .. MaxKeys |-> {}]
    /\ ttl = [k \in 1 .. MaxKeys |-> None]
    /\ calls = <<>>
    /\ ops = 0

(* concurrent verifications of the two keys from one address *)
NextPair ==
    \/ Tick
    \/ \E raw \in Secrets : VerifyStart(raw, Ip1)
    \/ \E i \in DOMAIN calls : RateExec(i)
    \/ \E i \in DOMAIN calls : RateDeny(i)
    \/ \E i \in DOMAIN calls : UsageCommit(i)

SpecPair == InitPair /\ [][NextPair]_vars

(* a KeyCreate body with a ceiling of one request in three seconds *)
StallReq ==
    [allowed_ips |-> <<>>, rate_limit_max |-> 1, rate_limit_window |-> 3,
     remaining_uses |-> None, expires_at |-> None, delete_protection |-> FALSE,
     refill_enabled |-> FALSE, refill_amount |-> None, refill_interval |-> None,
     owner_id |-> "alice", metadata |-> NoneStr, api_id |-> "api1"]

InitStall ==
    /\ now = 0
    /\ keys = << NewKey(generate_api_key(FirstToken), StallReq) >>
    /\ audit = << AuditRow(1, "create", <<>>) >>
    /\ window = [k \in 1 .. MaxKeys |-> {}]
    /\ ttl = [k \in 1 .. MaxKeys |-> None]
    /\ calls = <<>>
    /\ ops = 0

(* the clock running until one second past the key's window *)
TickStall ==
    /\ now < (StallReq.rate_limit_window + 1) * TicksPerSec
    /\ now' = now + 1
    /\ UNCHANGED <<keys, window, ttl, audit, calls, ops>>

(* concurrent verifications of that key over more than one window; a       *)
(* request may wait between its redis pipeline and its ZREM                *)
NextStall ==
    \/ TickStall
    \/ \E raw \in Secrets : VerifyStart(raw, Ip1)
    \/ \E i \in DOMAIN calls : RateExec(i)
    \/ \E i \in DOMAIN calls : RateDeny(i)
    \/ \E i \in DOMAIN calls : UsageCommit(i)

SpecStall == InitStall /\ [][NextStall]_vars

(* an issued key that its owner revokes and rotates while it and its       *)
(* successor are verified, one request after the other                     *)
NextRotate ==
    \/ Tick
    \/ \E k \in KeyIds, force \in BOOLEAN : revoke_key(k, force)
    \/ \E k \in KeyIds, raw \in Secrets : rotate_key(k, raw)
    \/ \E raw \in Secrets : VerifySeq(raw, Ip1)
    \/ \E i \in DOMAIN calls : RateExec(i)
    \/ \E i \in DOMAIN calls : RateDeny(i)
    \/ \E i \in DOMAIN calls : UsageCommit(i)

SpecRotate == Init /\ [][NextRotate]_vars

(* KeyUpdate bodies that send one setting each (the refill policy as a     *)
(* whole): schemas.py lines 105-116                                        *)
FieldUpdateReqs ==
    { [owner_id |-> "carol"],
      [metadata |-> "plan=team"],
      [allowed_ips |-> <<Ip2>>],
      [rate_limit_max |-> 2],
      [rate_limit_window |-> 1],
      [remaining_uses |-> 1],
      [refill_enabled |-> TRUE, refill_amount |-> 1, refill_interval |-> 1],
      [expires_at |-> 1],
      [delete_protection |-> TRUE] }

(* an issued key whose settings its owner changes one at a time while it   *)
(* is verified, one request after the other                                *)
NextUpdate ==
    \/ Tick
    \/ \E k \in KeyIds, data \in FieldUpdateReqs : update_key(k, data)
    \/ \E raw \in Secrets, ip \in ClientIps : VerifySeq(raw, ip)
    \/ \E i \in DOMAIN calls : RateExec(i)
    \/ \E i \in DOMAIN calls : RateDeny(i)
    \/ \E i \in DOMAIN calls : UsageCommit(i)

SpecUpdate == Init /\ [][NextUpdate]_vars

-----------------------------------------------------------------------------
(* The administrative handlers with their caller.  get_key, update_key,    *)
(* revoke_key and rotate_key start with the same SELECT: the key joined    *)
(* with its Api, where ApiKey.id == key_id and Api.owner_id ==             *)
(* current_user.id; no row raises HTTP 404 'Key not found'.                *)

Users == {"u1", "u2"}
Apis == {"api1", "api2"}

(* the apis table: Api.owner_id of each Api row *)
ApiOwner(api_id) == IF api_id = "api1" THEN "u1" ELSE "u2"

(* the SELECT answering a row for any caller *)
SelectOwned_any_caller(current_user, key_id) == key_id \in KeyIds

(* result.scalar_one_or_none() of that SELECT is a row *)
SelectOwned(current_user, key_id) ==
    key_id \in KeyIds /\ ApiOwner(keys[key_id].api_id) = current_user

(* raise HTTPException(404, "Key not found"): nothing is written *)
KeyNotFound ==
    /\ ops < MaxOps
    /\ ops' = ops + 1
    /\ UNCHANGED <<now, keys, window, ttl, audit, calls>>

(* lines 124-144: the answer of GET /{key_id} *)
get_key(current_user, key_id) ==
    IF SelectOwned(current_user, key_id)
    THEN [status |-> 200, detail |-> "", body |-> KeyResponse(key_id, keys[key_id])]
    ELSE [status |-> 404, detail |-> "Key not found", body |-> KeyResponse(0, NoKey)]

update_key_by(current_user, key_id, update_data) ==
    IF SelectOwned(current_user, key_id) THEN update_key(key_id, update_data) ELSE KeyNotFound

revoke_key_by(current_user, key_id, force) ==
    IF SelectOwned(current_user, key_id) THEN revoke_key(key_id, force) ELSE KeyNotFound

rotate_key_by(current_user, key_id, raw_key) ==
    IF SelectOwned(current_user, key_id) THEN rotate_key(key_id, raw_key) ELSE KeyNotFound

(* one key issued in an Api of either user *)
InitOwner ==
    /\ now = 0
    /\ \E data \in CreateReqs, api_id \in Apis :
           keys = << NewKey(generate_api_key(FirstToken), [data EXCEPT !.api_id = api_id]) >>
    /\ audit = << AuditRow(1, "create", <<>>) >>
    /\ window = [k \in 1 .. MaxKeys |-> {}]
    /\ ttl = [k \in 1 .. MaxKeys |-> None]
    /\ calls = <<>>
    /\ ops = 0

(* both users call the handlers with the ids of keys that exist and of     *)
(* keys that do not; no handler of the three reads the clock for its       *)
(* decision, so the clock stands still                                     *)
NextOwner ==
    \/ \E u \in Users, k \in 1 .. MaxKeys, data \in UpdateReqs : update_key_by(u, k, data)
    \/ \E u \in Users, k \in 1 .. MaxKeys, force \in BOOLEAN : revoke_key_by(u, k, force)
    \/ \E u \in Users, k \in 1 .. MaxKeys, raw \in Secrets : rotate_key_by(u, k, raw)

SpecOwner == InitOwner /\ [][NextOwner]_vars

-----------------------------------------------------------------------------
(* Vocabulary of the properties: what a request read and how it ended *)

Done(i) == calls[i].pc = "done"
Found(i) == calls[i].key # 0
Error(i) == calls[i].resp.error
Ran(i, check) == \E n \in DOMAIN calls[i].evald : calls[i].evald[n] = check
Expired(i) == calls[i].snap.expires_at # None /\ calls[i].t > calls[i].snap.expires_at
IpOk(i) == is_ip_allowed(calls[i].ip, calls[i].snap.allowed_ips)
Admitted(i) == Ran(i, "rate") /\ calls[i].pc # "deny" /\ Error(i) # "Rate limit exceeded"
Stepped(i) == i \notin DOMAIN calls \/ calls'[i] # calls[i]
VerifyRowsOf(k) == {n \in DOMAIN audit : audit[n].action = "verify" /\ audit[n].api_key_id = k}

-----------------------------------------------------------------------------
(* C1: verify_key runs lookup, revoked, expired, IP allow-list, rate limit *)
(* and usage quota in this order and stops at the first check that fails:  *)
(* the error of a returned request is that of the earliest check its       *)
(* loaded record fails, the checks it ran are exactly those up to that     *)
(* one, and a request that fails a check leaves untouched what the later   *)
(* checks would change (the rate-limit window, the key record).            *)
C1_FirstFailure ==
    \A i \in DOMAIN calls :
        Done(i) /\ Found(i) =>
            /\ calls[i].snap.revoked =>
                   Error(i) = "Key revoked" /\ calls[i].evald = <<"lookup", "revoked">>
            /\ ~calls[i].snap.revoked /\ Expired(i) =>
                   Error(i) = "Key expired" /\ calls[i].evald = <<"lookup", "revoked", "expired">>
            /\ ~calls[i].snap.revoked /\ ~Expired(i) /\ ~IpOk(i) =>
                   Error(i) = "IP not allowed"
                   /\ calls[i].evald = <<"lookup", "revoked", "expired", "ip">>
            /\ Error(i) = "Rate limit exceeded" =>
                   ~calls[i].snap.revoked /\ ~Expired(i) /\ IpOk(i) /\ ~Ran(i, "usage")
            /\ Error(i) = "Usage limit exceeded" \/ calls[i].resp.valid =>
                   /\ ~calls[i].snap.revoked /\ ~Expired(i) /\ IpOk(i)
                   /\ Truthy(calls[i].snap.rate_limit_max) => Admitted(i)

C1_NoLaterEffect ==
    \A i \in DOMAIN calls' :
        /\ i \notin DOMAIN calls /\ calls'[i].pc = "done" => UNCHANGED <<keys, window, ttl>>
        /\ Stepped(i) /\ calls'[i].resp.error = "Rate limit exceeded" => UNCHANGED keys

C1_CheckOrder == [] C1_FirstFailure /\ [][C1_NoLaterEffect]_vars

(* a revoked, expired, exhausted key called from a disallowed address *)
C1_Witness ==
    \E i \in DOMAIN calls :
        /\ Done(i) /\ calls[i].snap.revoked /\ Expired(i) /\ ~IpOk(i)
        /\ calls[i].snap.remaining_uses = 0
        /\ Error(i) = "Key revoked"

-----------------------------------------------------------------------------
(* C2: every verify_key request that finds a key record appends exactly    *)
(* one audit row with action "verify" for that key before it returns,      *)
(* whatever the outcome: a returned request wrote one row, a request still *)
(* in flight none yet, and the verify rows of a key are as many as the     *)
(* requests that returned for it.                                          *)
C2_OneAuditRow ==
    /\ \A i \in DOMAIN calls :
           calls[i].nlog = IF Done(i) /\ Found(i) THEN 1 ELSE 0
    /\ \A k \in KeyIds :
           Cardinality(VerifyRowsOf(k)) =
               Cardinality({i \in DOMAIN calls : Done(i) /\ calls[i].key = k})

(* a success and a rate-limited failure, each with its row *)
C2_Witness ==
    \E i, j \in DOMAIN calls :
        /\ Done(i) /\ calls[i].resp.valid
        /\ Done(j) /\ Error(j) = "Rate limit exceeded"
        /\ Cardinality(VerifyRowsOf(calls[i].key)) = 2

(* C3: a key that is revoked, or whose expires_at has passed, when the     *)
(* request loads it never yields valid=true, whatever its other fields:    *)
(* the result is "Key revoked", or "Key expired" for an unrevoked key.     *)
C3_RevokedOrExpiredFails ==
    \A i \in DOMAIN calls :
        Done(i) /\ Found(i) =>
            /\ calls[i].snap.revoked => ~calls[i].resp.valid /\ Error(i) = "Key revoked"
            /\ Expired(i) => ~calls[i].resp.valid
            /\ Expired(i) /\ ~calls[i].snap.revoked => Error(i) = "Key expired"

(* an expired key and a revoked key whose allow-list, quota and rate limit *)
(* would all let the request through                                       *)
C3_Witness ==
    \E i, j \in DOMAIN calls :
        /\ Done(i) /\ Error(i) = "Key expired" /\ IpOk(i)
        /\ calls[i].snap.remaining_uses > 0 /\ Members(calls[i].key) = {}
        /\ Done(j) /\ Error(j) = "Key revoked" /\ IpOk(j)
        /\ calls[j].snap.remaining_uses > 0 /\ Members(calls[j].key) = {}

(* C4: a request rejected with "IP not allowed" records nothing in the     *)
(* key's rate-limit window and leaves the key record (remaining_uses) as   *)
(* it was, so a later request from an allowed address counts the same      *)
(* window as if the rejected ones had never been made.                     *)
C4_IpRejectStep ==
    \A i \in DOMAIN calls' :
        Stepped(i) /\ calls'[i].resp.error = "IP not allowed" =>
            UNCHANGED <<keys, window, ttl>>

C4_IpRejectLeavesNoTrace == [][C4_IpRejectStep]_vars

(* a rejected address, then an allowed one that finds the whole ceiling free *)
C4_Witness ==
    \E i, j \in DOMAIN calls :
        /\ i < j /\ calls[i].key = calls[j].key
        /\ Done(i) /\ Error(i) = "IP not allowed"
        /\ Done(j) /\ calls[j].resp.valid
        /\ calls[j].resp.remaining = calls[j].snap.rate_limit_max - 1

(* C5: a request rejected with "Rate limit exceeded" never debits the      *)
(* usage quota: it returns without running the usage check, and the steps  *)
(* that deny it leave remaining_uses of the key as it was.                 *)
C5_DenyStep ==
    \A i \in DOMAIN calls :
        Stepped(i) /\ (calls'[i].pc = "deny" \/ calls'[i].resp.error = "Rate limit exceeded") =>
            keys'[calls[i].key].remaining_uses = keys[calls[i].key].remaining_uses

C5_RateDenyKeepsQuota ==
    /\ [] (\A i \in DOMAIN calls : Error(i) = "Rate limit exceeded" => ~Ran(i, "usage"))
    /\ [][C5_DenyStep]_vars

(* a rate-limited request on a key that still has uses left *)
C5_Witness ==
    \E i \in DOMAIN calls :
        /\ Done(i) /\ Error(i) = "Rate limit exceeded"
        /\ calls[i].snap.remaining_uses > 0
        /\ keys[calls[i].key].remaining_uses > 0

(* the returned requests of key k that answered valid=true *)
ValidCalls(k) == {i \in DOMAIN calls : Done(i) /\ calls[i].key = k /\ calls[i].resp.valid}

(* the rate-limit checks made for the key of request j before request j *)
EarlierRateChecks(j) ==
    {i \in 1 .. (j - 1) : calls[i].key = calls[j].key /\ Ran(i, "rate")}

(* the window of request j, in ticks *)
WindowTicks(j) == WindowOf(calls[j].snap) * TicksPerSec

(* C6: under every interleaving of check_rate_limit calls for one key, the *)
(* admitted calls whose timestamps lie within one window never number more *)
(* than max_requests; with max_requests = 1 exactly one caller is admitted.*)
C6_NeverOverAdmits ==
    \A j \in DOMAIN calls :
        Found(j) /\ Admitted(j) =>
            Cardinality({i \in DOMAIN calls :
                            /\ calls[i].key = calls[j].key
                            /\ Admitted(i)
                            /\ calls[i].t > calls[j].t - WindowTicks(j)
                            /\ calls[i].t <= calls[j].t})
                <= calls[j].snap.rate_limit_max

(* three calls reading one clock value against a ceiling of one: the      *)
(* denied call has taken the admitted call's entry away with its own, and  *)
(* a second call is admitted while the clock still shows that value        *)
C6_Witness ==
    \E i, j, d \in DOMAIN calls :
        /\ i # j
        /\ calls[i].key = calls[d].key /\ calls[j].key = calls[d].key
        /\ calls[d].snap.rate_limit_max = 1
        /\ calls[i].t = now /\ calls[j].t = now /\ calls[d].t = now
        /\ Found(i) /\ Admitted(i) /\ Admitted(j)
        /\ Done(d) /\ Error(d) = "Rate limit exceeded"

(* C7: for a key with usage quota q that is neither refilled nor updated,  *)
(* at most q verifications succeed under every interleaving.               *)
C7_AtMostQuotaSucceed ==
    \A k \in KeyIds :
        keys[k].max_uses # None => Cardinality(ValidCalls(k)) <= keys[k].max_uses

(* a quota of two, one use spent: two verifications that both loaded       *)
(* remaining_uses = 1 and both succeeded                                   *)
C7_Witness ==
    \E i, j \in DOMAIN calls :
        /\ i # j /\ calls[i].key = calls[j].key /\ Found(i)
        /\ calls[i].snap.max_uses = 2
        /\ calls[i].snap.rate_limit_max = DEFAULT_RATE_LIMIT
        /\ calls[i].snap.remaining_uses = 1 /\ calls[j].snap.remaining_uses = 1
        /\ Done(i) /\ calls[i].resp.valid
        /\ Done(j) /\ calls[j].resp.valid

(* C8: for one key with ceiling max and window W, among sequential         *)
(* check_rate_limit calls all made within W the first max are allowed and  *)
(* every further one is denied with remaining = 0; once the window has     *)
(* elapsed since the admitted calls, the next call is allowed again.       *)
C8_SequentialWindow ==
    \A j \in DOMAIN calls :
        Done(j) /\ Found(j) /\ Ran(j, "rate") =>
            LET earlier == EarlierRateChecks(j)
                recent == {i \in earlier : calls[i].t > calls[j].t - WindowTicks(j)}
            IN  /\ recent = earlier =>
                       (Admitted(j) <=> Cardinality(earlier) < calls[j].snap.rate_limit_max)
                /\ ~Admitted(j) => calls[j].resp.remaining = 0
                /\ {i \in recent : Admitted(i)} = {} => Admitted(j)

(* one after the other on one clock value, ceiling one: allowed, denied,   *)
(* allowed                                                                 *)
C8_Witness ==
    /\ Len(calls) = 3
    /\ \A i \in DOMAIN calls :
           calls[i].key = 1 /\ calls[i].t = now /\ calls[i].snap.rate_limit_max = 1
    /\ Admitted(1) /\ Done(1)
    /\ Done(2) /\ Error(2) = "Rate limit exceeded"
    /\ Admitted(3) /\ Done(3)

(* C9: for a key created with remaining_uses = q (no refill, no update),   *)
(* sequential verifications that pass the earlier checks answer valid=true *)
(* exactly q times and "Usage limit exceeded" ever after; the stored       *)
(* remaining_uses is q less the successes so far and never drops below 0.  *)
C9_ExactlyQuotaSucceed ==
    \A k \in KeyIds :
        keys[k].max_uses # None =>
            /\ keys[k].remaining_uses = keys[k].max_uses - Cardinality(ValidCalls(k))
            /\ keys[k].remaining_uses >= 0
            /\ \A j \in DOMAIN calls :
                   Done(j) /\ calls[j].key = k /\ Ran(j, "usage") =>
                       IF Cardinality({i \in ValidCalls(k) : i < j}) < keys[k].max_uses
                       THEN calls[j].resp.valid
                       ELSE ~calls[j].resp.valid /\ Error(j) = "Usage limit exceeded"

(* a quota of two: two successes, then the refusal, and nothing left *)
C9_Witness ==
    \E j \in DOMAIN calls :
        /\ Done(j) /\ Error(j) = "Usage limit exceeded"
        /\ keys[calls[j].key].max_uses = 2
        /\ Cardinality(ValidCalls(calls[j].key)) = 2
        /\ keys[calls[j].key].remaining_uses = 0

(* C10: in every reachable state, after any sequence of create, verify,    *)
(* update, rotate and revoke, remaining_uses of every key is absent or     *)
(* not negative.                                                           *)
C10_RemainingNeverNegative ==
    \A k \in KeyIds : keys[k].remaining_uses = None \/ keys[k].remaining_uses >= 0

(* a key issued with a positive quota whose remaining_uses an update has   *)
(* set below zero                                                          *)
C10_Witness ==
    \E k \in KeyIds :
        /\ keys[k].max_uses # None /\ keys[k].max_uses >= 1
        /\ keys[k].remaining_uses # None /\ keys[k].remaining_uses < 0

-----------------------------------------------------------------------------
(* C11: revocation is terminal.  No step of any handler (verify, update,   *)
(* revoke, rotate) takes a key record from revoked = TRUE back to FALSE,   *)
(* and every verification that starts on a revoked record ends at once     *)
(* with valid=false and "Key revoked".                                     *)
C11_RevokedStays ==
    \A k \in KeyIds : keys[k].revoked => keys'[k].revoked

C11_LaterVerifyFails ==
    \A i \in DOMAIN calls' :
        i \notin DOMAIN calls /\ calls'[i].key # 0 /\ keys[calls'[i].key].revoked =>
            /\ calls'[i].pc = "done"
            /\ ~calls'[i].resp.valid
            /\ calls'[i].resp.error = "Key revoked"

C11_RevocationTerminal == [][C11_RevokedStays /\ C11_LaterVerifyFails]_vars

(* a key issued with nothing to stop a verification, revoked, and then    *)
(* verified: "Key revoked"                                                 *)
C11_Witness ==
    \E i \in DOMAIN calls, m \in DOMAIN audit :
        /\ audit[m].action = "revoke" /\ audit[m].api_key_id = calls[i].key
        /\ Done(i) /\ Error(i) = "Key revoked"
        /\ IpOk(i) /\ ~Expired(i) /\ calls[i].snap.remaining_uses = None
        /\ keys[calls[i].key].revoked

-----------------------------------------------------------------------------
(* C12: once a key's expires_at is set and has passed, the key stays       *)
(* invalid: after a verification has answered "Key expired", no later      *)
(* verification of that key answers valid=true, whatever was done to the   *)
(* key in between (update_key included).                                   *)
C12_ExpiryPermanent ==
    \A i, j \in DOMAIN calls :
        /\ i < j /\ calls[i].key # 0 /\ calls[i].key = calls[j].key
        /\ Done(i) /\ Error(i) = "Key expired"
        /\ Done(j)
        => ~calls[j].resp.valid

(* "Key expired", then an update that moves expires_at, then valid=true    *)
C12_Witness ==
    \E i, j \in DOMAIN calls, n \in DOMAIN audit :
        /\ i < j /\ calls[i].key # 0 /\ calls[i].key = calls[j].key
        /\ Done(i) /\ Error(i) = "Key expired"
        /\ audit[n].action = "update" /\ audit[n].api_key_id = calls[i].key
        /\ audit[n].context.updated_fields = {"expires_at"}
        /\ Done(j) /\ calls[j].resp.valid
        /\ calls[j].snap.expires_at > calls[i].snap.expires_at

-----------------------------------------------------------------------------
(* C13: if the rate-limit store fails while verify_key runs its rate-limit *)
(* step, the request fails closed: it answers valid=false with "Rate limit *)
(* exceeded".                                                              *)
C13_RedisFailsClosed ==
    \A i \in DOMAIN calls :
        Done(i) /\ calls[i].fault = "redis" =>
            ~calls[i].resp.valid /\ Error(i) = "Rate limit exceeded"

(* redis failed under a request that had passed every earlier check *)
C13_Witness ==
    \E i \in DOMAIN calls :
        /\ Done(i) /\ calls[i].fault = "redis"
        /\ ~calls[i].snap.revoked /\ ~Expired(i) /\ IpOk(i)
        /\ calls[i].resp = ServerError
        /\ VerifyRowsOf(calls[i].key) = {}

(* C14: a failure of the audit write never changes or blocks the decision: *)
(* the caller receives the valid flag and the error that were computed.    *)
C14_AuditFailureKeepsDecision ==
    \A i \in DOMAIN calls :
        Done(i) /\ calls[i].fault = "audit" =>
            /\ calls[i].resp.valid = calls[i].decided.valid
            /\ calls[i].resp.error = calls[i].decided.error

(* the audit write failed under a request that had been decided valid *)
C14_Witness ==
    \E i \in DOMAIN calls :
        /\ Done(i) /\ calls[i].fault = "audit"
        /\ calls[i].decided.valid
        /\ calls[i].resp = ServerError

(* C15: verification side effects are final once made: a remaining_uses    *)
(* that verify_key has decremented stays decremented if the request later  *)
(* fails, as its rate-limit entry does.                                    *)
C15_DebitIsFinal ==
    \A i \in DOMAIN calls :
        Done(i) /\ Ran(i, "usage") /\ calls[i].usage.allowed =>
            keys[calls[i].key].remaining_uses <= calls[i].usage.new_remaining

(* a request admitted by the rate limiter and debited, whose audit write   *)
(* failed: the key has its use back, the window still holds the entry      *)
C15_Witness ==
    \E i \in DOMAIN calls :
        /\ Done(i) /\ calls[i].fault = "audit"
        /\ Ran(i, "rate") /\ calls[i].t \in Members(calls[i].key)
        /\ Ran(i, "usage") /\ calls[i].usage.allowed
        /\ keys[calls[i].key].remaining_uses = calls[i].snap.remaining_uses

-----------------------------------------------------------------------------
(* C16: verify_key with a secret whose hash matches no key record answers  *)
(* valid=false with "Key not found" at once, writes no audit row, touches  *)
(* no rate-limit window and changes no key record.                         *)
C16_MissStep ==
    \A i \in DOMAIN calls' :
        i \notin DOMAIN calls /\ Lookup(calls'[i].key_hash) = {} =>
            /\ calls'[i].pc = "done"
            /\ calls'[i].resp = Failure("Key not found", None, None)
            /\ calls'[i].nlog = 0
            /\ UNCHANGED <<keys, window, ttl, audit>>

C16_MissLeavesNoTrace == [][C16_MissStep]_vars

(* an unknown secret presented after a key has been used: the answer is    *)
(* "Key not found" and the audit trail holds nothing for it                *)
C16_Witness ==
    \E i, j \in DOMAIN calls :
        /\ j < i /\ Done(j) /\ calls[j].resp.valid
        /\ Done(i) /\ Error(i) = "Key not found" /\ calls[i].key = 0
        /\ Lookup(calls[i].key_hash) = {}
        /\ \A n \in DOMAIN audit : audit[n].api_key_id \in KeyIds
        /\ Cardinality(VerifyRowsOf(calls[j].key)) = 1

-----------------------------------------------------------------------------
(* C17: before the usage check of a verification the refill policy is      *)
(* applied: for a key with refill_enabled whose refill_interval has passed *)
(* since its last refill (since it was issued, if it was never refilled),  *)
(* the check runs on min(max_uses, remaining_uses + refill_amount), and    *)
(* the record's last_refill_at is set; so an exhausted key is admitted     *)
(* again once the interval has passed.                                     *)
Min(a, b) == IF a <= b THEN a ELSE b

LastRefill(api_key) ==
    IF api_key.last_refill_at = None THEN api_key.created_at ELSE api_key.last_refill_at

RefillDue(j) ==
    /\ calls[j].snap.refill_enabled
    /\ calls[j].t - LastRefill(calls[j].snap) >= calls[j].snap.refill_interval * TicksPerSec

Refilled(j) ==
    Min(calls[j].snap.max_uses, calls[j].snap.remaining_uses + calls[j].snap.refill_amount)

C17_RefillApplied ==
    \A j \in DOMAIN calls :
        Done(j) /\ Ran(j, "usage") /\ RefillDue(j) =>
            /\ calls[j].resp.valid = (Refilled(j) > 0)
            /\ calls[j].resp.valid => calls[j].usage.new_remaining = Refilled(j) - 1
            /\ keys[calls[j].key].last_refill_at # None

(* an exhausted key with refill enabled, verified after its interval has   *)
(* passed: "Usage limit exceeded", and last_refill_at was never written    *)
C17_Witness ==
    \E j \in DOMAIN calls :
        /\ Done(j) /\ RefillDue(j)
        /\ calls[j].snap.remaining_uses = 0
        /\ calls[j].snap.refill_amount >= 1
        /\ Error(j) = "Usage limit exceeded"
        /\ keys[calls[j].key].remaining_uses = 0
        /\ keys[calls[j].key].last_refill_at = None

-----------------------------------------------------------------------------
(* C18: a denied check_rate_limit call never consumes quota: when it has   *)
(* completed, the entries recorded for the key are exactly those that were *)
(* there before it, less the expired ones it evicted; its own speculative  *)
(* entry is gone and no entry of an admitted call has been removed.        *)
C18_DeniedStep ==
    \A i \in DOMAIN calls :
        calls[i].pc = "deny" /\ calls'[i].pc = "done" =>
            window'[calls[i].key] = Members(calls[i].key) \cap calls[i].seen

C18_DeniedLeavesWindow == [][C18_DeniedStep]_vars

(* a denied call has completed and the entry of the admitted call that     *)
(* filled the window is no longer recorded, with the clock unmoved         *)
C18_Witness ==
    \E i, j \in DOMAIN calls :
        /\ j < i /\ calls[j].key = calls[i].key
        /\ Admitted(j) /\ Done(j) /\ calls[j].resp.valid
        /\ Done(i) /\ Error(i) = "Rate limit exceeded"
        /\ calls[j].t \in calls[i].seen
        /\ now = calls[j].t
        /\ calls[j].t \notin Members(calls[i].key)

-----------------------------------------------------------------------------
(* C19: UsageLimiter.check_and_decrement returns (true, absent) when       *)
(* remaining is absent, (false, 0) when remaining <= 0 and                 *)
(* (true, remaining - 1) otherwise, for every input, and the new remaining *)
(* it returns is never negative; this is what every verification that ran  *)
(* the usage check got from it.                                            *)
UsageInputs == {None} \cup ((0 - MaxUses) .. MaxUses)

C19_CheckAndDecrement ==
    /\ \A r \in UsageInputs :
           LET u == check_and_decrement(r)
           IN  /\ r = None => u.allowed /\ u.new_remaining = None
               /\ r # None /\ r <= 0 => ~u.allowed /\ u.new_remaining = 0
               /\ r # None /\ r > 0 => u.allowed /\ u.new_remaining = r - 1
               /\ u.new_remaining = None \/ u.new_remaining >= 0
    /\ \A i \in DOMAIN calls :
           Ran(i, "usage") =>
               LET r == calls[i].snap.remaining_uses
               IN  /\ r \in UsageInputs \ {None}
                   /\ calls[i].usage.allowed = (r > 0)
                   /\ calls[i].usage.new_remaining = IF r > 0 THEN r - 1 ELSE 0
                   /\ calls[i].resp.valid = calls[i].usage.allowed

(* the usage check has run on a positive and on a negative remaining_uses  *)
C19_Witness ==
    \E i, j \in DOMAIN calls :
        /\ Done(i) /\ Ran(i, "usage") /\ calls[i].snap.remaining_uses > 0
        /\ calls[i].usage = [allowed |-> TRUE, new_remaining |-> calls[i].snap.remaining_uses - 1]
        /\ Done(j) /\ Ran(j, "usage") /\ calls[j].snap.remaining_uses < 0
        /\ calls[j].usage = [allowed |-> FALSE, new_remaining |-> 0]

-----------------------------------------------------------------------------
(* C20: is_ip_allowed answers true for every client address, an absent or  *)
(* unparsable one included, when the allow-list is empty or absent; so     *)
(* verify_key never answers "IP not allowed" for a key with no allow-list. *)
NoAllowList(allowed_ips) == allowed_ips = NullList \/ allowed_ips = <<>>

C20_NoAllowListAllowsAll ==
    /\ \A c \in AnyClient : is_ip_allowed(c, <<>>) /\ is_ip_allowed(c, NullList)
    /\ \A i \in DOMAIN calls :
           Done(i) /\ Found(i) /\ NoAllowList(calls[i].snap.allowed_ips) =>
               /\ Error(i) # "IP not allowed"
               /\ ~calls[i].snap.revoked /\ ~Expired(i) => Ran(i, "ip")

(* a caller without a client address on a key whose list is null, and a    *)
(* caller with an unparsable address on a key whose list is empty: both    *)
(* verified                                                                *)
C20_Witness ==
    \E i, j \in DOMAIN calls :
        /\ Done(i) /\ calls[i].ip = NoClient /\ calls[i].snap.allowed_ips = NullList
        /\ calls[i].resp.valid
        /\ Done(j) /\ calls[j].ip = BadText /\ calls[j].snap.allowed_ips = <<>>
        /\ calls[j].resp.valid

-----------------------------------------------------------------------------
(* C21: for a non-empty allow-list and a client address that parses,       *)
(* is_ip_allowed answers true exactly when some well-formed entry matches  *)
(* the address: a single-address entry by equality, a CIDR entry when the  *)
(* address agrees with the network on the prefix bits.  A malformed entry  *)
(* is skipped: it neither matches nor ends the search, so verify_key       *)
(* answers "IP not allowed" exactly when no well-formed entry matches.     *)
AddrSpace == 0 .. (Pow2(AddrBits) - 1)

(* bit b of an address, counted from the most significant one *)
Bit(a, b) == (a \div Pow2(AddrBits - b)) % 2

WellFormed(e) ==
    \/ e.kind = "addr" /\ e.addr \in AddrSpace
    \/ e.kind = "cidr" /\ e.addr \in AddrSpace /\ e.len \in 0 .. AddrBits

Matches(c, e) ==
    /\ WellFormed(e)
    /\ IF e.kind = "addr" THEN c.addr = e.addr
       ELSE \A b \in 1 .. e.len : Bit(c.addr, b) = Bit(e.addr, b)

SomeEntryMatches(c, allowed_ips) ==
    \E n \in 1 .. Len(allowed_ips) : Matches(c, allowed_ips[n])

ListEntries == {Ip1, BadText, BadCidr, Cidr(3, 1)}

(* the allow-lists of one and of two entries *)
AllowLists == {<<e>> : e \in ListEntries} \cup {<<e, f>> : e \in ListEntries, f \in ListEntries}

C21_MatchesWellFormedEntry ==
    /\ \A c \in ClientIps, l \in AllowLists :
           is_ip_allowed(c, l) = SomeEntryMatches(c, l)
    /\ \A i \in DOMAIN calls :
           /\ Done(i) /\ Found(i) /\ ~NoAllowList(calls[i].snap.allowed_ips)
           /\ calls[i].ip \in ClientIps
           /\ ~calls[i].snap.revoked /\ ~Expired(i)
           => /\ Ran(i, "ip")
              /\ (Error(i) = "IP not allowed") = ~SomeEntryMatches(calls[i].ip, calls[i].snap.allowed_ips)

(* behind two malformed entries a network admits one address and rejects   *)
(* the other; a single-address entry admits its own address only           *)
C21_Witness ==
    \E i, j \in DOMAIN calls :
        /\ calls[i].snap.allowed_ips = << BadText, BadCidr, Cidr(3, 1) >>
        /\ calls[j].snap.allowed_ips = << BadText, BadCidr, Cidr(3, 1) >>
        /\ Done(i) /\ calls[i].ip = Ip2 /\ calls[i].resp.valid
        /\ Done(j) /\ calls[j].ip = Ip1 /\ Error(j) = "IP not allowed"
        /\ is_ip_allowed(Ip1, <<Ip1>>) /\ ~is_ip_allowed(Ip2, <<Ip1>>)

-----------------------------------------------------------------------------
(* C22: for a key with a non-empty allow-list, a client address that is    *)
(* absent or does not parse is rejected: is_ip_allowed answers false, and  *)
(* a verification that reaches the IP check answers "IP not allowed" with  *)
(* its audit row written; nothing is raised.                               *)
C22_FailsClosed ==
    /\ \A c \in {NoClient, BadText}, l \in AllowLists : ~is_ip_allowed(c, l)
    /\ \A i \in DOMAIN calls :
           /\ Done(i) /\ Found(i) /\ ~NoAllowList(calls[i].snap.allowed_ips)
           /\ calls[i].ip \in {NoClient, BadText}
           /\ ~calls[i].snap.revoked /\ ~Expired(i)
           => /\ ~calls[i].resp.valid /\ Error(i) = "IP not allowed"
              /\ calls[i].fault = "" /\ calls[i].nlog = 1
              /\ ~Ran(i, "rate") /\ ~Ran(i, "usage")

(* a caller without an address and a caller with an unparsable one, both   *)
(* rejected by a key that lists a single address                           *)
C22_Witness ==
    \E i, j \in DOMAIN calls :
        /\ calls[i].snap.allowed_ips = <<Ip1>> /\ calls[j].snap.allowed_ips = <<Ip1>>
        /\ Done(i) /\ calls[i].ip = NoClient /\ Error(i) = "IP not allowed"
        /\ Done(j) /\ calls[j].ip = BadText /\ Error(j) = "IP not allowed"
        /\ Cardinality(VerifyRowsOf(calls[i].key)) = 2

-----------------------------------------------------------------------------
(* C25: in every reachable state no two key records have the same          *)
(* key_hash, so the lookup by hash of verify_key matches at most one       *)
(* record for every secret that can be presented, also after rotations.    *)
C25_HashUnique ==
    /\ \A i, j \in KeyIds : i # j => keys[i].key_hash # keys[j].key_hash
    /\ \A raw \in Secrets : Cardinality(Lookup(hash_api_key(raw))) <= 1

(* a key and the key it was rotated into, each found by its own secret *)
C25_Witness ==
    /\ Len(keys) = 2
    /\ \E n \in DOMAIN audit : audit[n].action = "rotate_new" /\ audit[n].api_key_id = 2
    /\ \E i \in DOMAIN calls : Done(i) /\ calls[i].key = 2 /\ calls[i].resp.valid
    /\ \A k \in KeyIds : \E raw \in Secrets : Lookup(hash_api_key(raw)) = {k}

-----------------------------------------------------------------------------
(* C24: the raw secret of a key is never at rest.  In every reachable      *)
(* state no column of a key record and no field of an audit row holds a    *)
(* raw secret (the record has the keyed hash and the truncated prefix),    *)
(* and no answer that a later operation builds from what is at rest (the   *)
(* KeyResponse of get_key, list_keys and update_key, the response of       *)
(* verify_key) holds one: the raw secret is in the KeyCreateResponse of    *)
(* the create_key or rotate_key call that generated it, and nowhere else.  *)
RawKeys == FirstToken .. (FirstToken + MaxKeys)

IsRaw(x) == x \in RawKeys

(* the columns of api_keys that hold text or a number *)
ScalarColumns ==
    {"key_hash", "key_prefix", "rate_limit_max", "rate_limit_window", "remaining_uses",
     "max_uses", "expires_at", "revoked_at", "last_used_at", "refill_amount",
     "refill_interval", "last_refill_at", "created_at"}

ScalarResponseFields ==
    {"id", "key_prefix", "rate_limit_max", "rate_limit_window", "remaining_uses",
     "max_uses", "expires_at", "created_at", "last_used_at"}

RowHoldsRaw(row) ==
    \/ IsRaw(row.api_key_id)
    \/ row.action = "rotate_old" /\ IsRaw(row.context.new_key_id)
    \/ row.action = "rotate_new" /\ IsRaw(row.context.old_key_id)

C24_RawNeverAtRest ==
    /\ \A k \in KeyIds :
           /\ \A f \in ScalarColumns : ~IsRaw(keys[k][f])
           /\ \A f \in ScalarResponseFields : ~IsRaw(KeyResponse(k, keys[k])[f])
           /\ \E raw \in RawKeys :
                  /\ keys[k].key_hash = hash_api_key(raw)
                  /\ keys[k].key_prefix = KeyPrefix(raw)
                  /\ KeyCreateResponse(k, generate_api_key(raw), keys[k]).key = raw
    /\ \A n \in DOMAIN audit : ~RowHoldsRaw(audit[n])
    /\ \A i \in DOMAIN calls :
           ~IsRaw(calls[i].resp.key_id) /\ ~IsRaw(calls[i].resp.remaining)
           /\ ~IsRaw(calls[i].resp.reset_at)

(* a key was issued, rotated, and its successor verified by its secret:    *)
(* two secrets were handed out and the records hold their hashes           *)
C24_Witness ==
    /\ Len(keys) = 2
    /\ \E r1, r2 \in RawKeys :
           /\ r1 # r2
           /\ keys[1].key_hash = hash_api_key(r1) /\ keys[2].key_hash = hash_api_key(r2)
           /\ \E i \in DOMAIN calls :
                  Done(i) /\ calls[i].key_hash = hash_api_key(r2) /\ calls[i].resp.valid
    /\ \E n \in DOMAIN audit : audit[n].action = "rotate_old"

-----------------------------------------------------------------------------
(* C26: revoke_key on a key with delete_protection, called without         *)
(* force=true, fails and writes nothing: the record stays as it was (an    *)
(* unrevoked key stays unrevoked) and no audit row is added.  Called with  *)
(* force=true, or on an unprotected key, it sets revoked and revoked_at    *)
(* and adds exactly one "revoke" audit row for the key.                    *)
C26_RevokeStep ==
    \A k \in KeyIds, force \in BOOLEAN :
        revoke_key(k, force) =>
            IF keys[k].delete_protection /\ ~force
            THEN keys' = keys /\ audit' = audit
            ELSE /\ keys'[k].revoked /\ keys'[k].revoked_at = now
                 /\ \A j \in KeyIds \ {k} : keys'[j] = keys[j]
                 /\ Len(audit') = Len(audit) + 1
                 /\ audit'[Len(audit')].action = "revoke"
                 /\ audit'[Len(audit')].api_key_id = k
                 /\ \A n \in DOMAIN audit : audit'[n] = audit[n]

C26_DeleteProtection == [][C26_RevokeStep]_vars

(* a protected key after a revocation that was refused and one that was    *)
(* forced: three handler calls, and the audit trail has the creation and   *)
(* one revocation                                                          *)
C26_Witness ==
    \E k \in KeyIds :
        /\ keys[k].delete_protection /\ keys[k].revoked /\ keys[k].revoked_at # None
        /\ Len(keys) = 1 /\ calls = <<>> /\ ops = 3
        /\ Len(audit) = 2 /\ audit[1].action = "create" /\ audit[2].action = "revoke"

-----------------------------------------------------------------------------
(* C27: verifications of different keys are independent.  Under every      *)
(* interleaving, a step of a verify_key call for key A leaves every other  *)
(* key B as it was: B's record, B's rate-limit window and its expiry, and  *)
(* B's audit rows.  The outcome of the call is decided by what belongs to  *)
(* A alone: the record of A it loaded, the entries recorded for A that its *)
(* pipeline counted, the caller's address and the clock.                   *)
AuditRowsOf(trail, k) == {n \in DOMAIN trail : trail[n].api_key_id = k}

C27_FrameStep ==
    \A i \in DOMAIN calls' :
        Stepped(i) /\ calls'[i].key # 0 =>
            /\ i \notin DOMAIN calls =>
                   /\ calls'[i].snap = keys[calls'[i].key]
                   /\ calls'[i].snap.key_hash = calls'[i].key_hash
            /\ \A b \in KeyIds \ {calls'[i].key} :
                   /\ keys'[b] = keys[b]
                   /\ window'[b] = window[b] /\ ttl'[b] = ttl[b]
                   /\ AuditRowsOf(audit', b) = AuditRowsOf(audit, b)
                   /\ \A n \in AuditRowsOf(audit, b) : audit'[n] = audit[n]

(* the error the loaded record of A, the counted entries of A, the address *)
(* and the clock value call for                                            *)
OutcomeFromOwnKey(i) ==
    LET c == LocalChecks(calls[i].snap, calls[i].ip, calls[i].t)
    IN  IF c.reason # "" THEN ErrorOf(c.reason)
        ELSE IF Truthy(calls[i].snap.rate_limit_max)
                /\ Cardinality(calls[i].seen) >= calls[i].snap.rate_limit_max
        THEN "Rate limit exceeded"
        ELSE IF calls[i].snap.remaining_uses # None /\ calls[i].snap.remaining_uses <= 0
        THEN "Usage limit exceeded"
        ELSE ""

C27_OwnOutcome ==
    \A i \in DOMAIN calls :
        Done(i) /\ Found(i) =>
            /\ Error(i) = OutcomeFromOwnKey(i)
            /\ calls[i].seen \subseteq {calls[j].t : j \in {n \in DOMAIN calls : calls[n].key = calls[i].key}}

C27_KeysIndependent == [] C27_OwnOutcome /\ [][C27_FrameStep]_vars

(* a verification of one key completed while a verification of the other   *)
(* key, started before it, was still in flight; the key with a ceiling of  *)
(* one then denied a second caller while the other key's window stayed     *)
(* empty of that key's entries                                             *)
C27_Witness ==
    \E i, j, d \in DOMAIN calls :
        /\ i < j /\ Found(i) /\ Found(j) /\ calls[i].key # calls[j].key
        /\ ~Done(i) /\ Done(j) /\ calls[j].resp.valid
        /\ calls[d].key = calls[j].key /\ Done(d) /\ Error(d) = "Rate limit exceeded"
        /\ keys[calls[i].key].last_used_at = None

-----------------------------------------------------------------------------
(* C28: rotate_key revokes the old key and creates a new key with the same *)
(* settings.  The step leaves the old record revoked and appends a record  *)
(* with the old key's owner, metadata, allow-list, rate limit and expiry   *)
(* whose remaining_uses is the old key's max_uses, and adds one            *)
(* "rotate_old" row for the old key and one "rotate_new" row for the new   *)
(* one.  From then on a verification with the old secret answers "Key      *)
(* revoked", and the first verification with the new secret passes (when   *)
(* the copied expiry and allow-list admit the caller and the new key has   *)
(* not been revoked in its turn) and answers with the new key's id and the *)
(* old key's owner and metadata.                                           *)
Settings == {"owner_id", "meta", "allowed_ips", "rate_limit_max", "rate_limit_window", "expires_at"}

C28_RotateStep ==
    \A k \in KeyIds, raw \in Secrets :
        rotate_key(k, raw) =>
            LET n == Len(keys) + 1
            IN  /\ Len(keys') = n
                /\ keys'[k].revoked /\ keys'[k].revoked_at = now
                /\ ~keys'[n].revoked
                /\ keys'[n].key_hash = hash_api_key(raw)
                /\ \A f \in Settings : keys'[n][f] = keys[k][f]
                /\ keys'[n].remaining_uses = keys[k].max_uses
                /\ keys'[n].max_uses = keys[k].max_uses
                /\ Len(audit') = Len(audit) + 2
                /\ audit'[Len(audit) + 1] = AuditRow(k, "rotate_old", [new_key_id |-> n])
                /\ audit'[Len(audit) + 2] = AuditRow(n, "rotate_new", [old_key_id |-> k])
                /\ \A m \in DOMAIN audit : audit'[m] = audit[m]

(* the key that key n replaced, 0 when n was not made by a rotation *)
RotatedFrom(n) ==
    IF \E m \in DOMAIN audit : audit[m].action = "rotate_new" /\ audit[m].api_key_id = n
    THEN audit[CHOOSE m \in DOMAIN audit :
                   audit[m].action = "rotate_new" /\ audit[m].api_key_id = n].context.old_key_id
    ELSE 0

Updated(k) == \E m \in DOMAIN audit : audit[m].action = "update" /\ audit[m].api_key_id = k

C28_OldSecretStep ==
    \A i \in DOMAIN calls' :
        /\ i \notin DOMAIN calls /\ calls'[i].key # 0
        /\ \E m \in DOMAIN audit :
               audit[m].action = "rotate_old" /\ audit[m].api_key_id = calls'[i].key
        => calls'[i].pc = "done" /\ calls'[i].resp.error = "Key revoked"

C28_NewSecret ==
    \A i \in DOMAIN calls :
        /\ Done(i) /\ Found(i) /\ RotatedFrom(calls[i].key) # 0
        /\ ~Updated(calls[i].key) /\ ~Updated(RotatedFrom(calls[i].key))
        /\ \A j \in 1 .. (i - 1) : calls[j].key # calls[i].key
        => LET old == keys[RotatedFrom(calls[i].key)]
           IN  /\ \A f \in Settings : calls[i].snap[f] = old[f]
               /\ calls[i].snap.remaining_uses = old.max_uses
               /\ calls[i].resp.valid = (~calls[i].snap.revoked /\ ~Expired(i) /\ IpOk(i))
               /\ calls[i].resp.valid =>
                      /\ calls[i].resp.key_id = calls[i].key
                      /\ calls[i].resp.owner_id = old.owner_id
                      /\ calls[i].resp.metadata = old.meta

C28_RotateKeepsSettings ==
    /\ [] C28_NewSecret
    /\ [][C28_RotateStep /\ C28_OldSecretStep]_vars

(* a key with an owner, metadata, a ceiling and a quota was rotated and    *)
(* its successor verified: valid, with the owner and metadata of the old   *)
(* key, which is now revoked                                               *)
C28_Witness ==
    \E i \in DOMAIN calls :
        /\ Done(i) /\ calls[i].resp.valid /\ RotatedFrom(calls[i].key) # 0
        /\ keys[RotatedFrom(calls[i].key)].revoked
        /\ calls[i].resp.owner_id = "alice" /\ calls[i].resp.metadata = "plan=pro"
        /\ calls[i].snap.rate_limit_max = 1 /\ calls[i].snap.remaining_uses = 2
        /\ calls[i].resp.key_id # RotatedFrom(calls[i].key)

-----------------------------------------------------------------------------
(* C29: an admitted check_rate_limit call reports remaining =               *)
(* max_requests - count - 1, count being the entries in the window just    *)
(* before the call, and every call reports reset_at = now + window_seconds *)
(* (in whole seconds).  A successful verify_key answers with these two     *)
(* values, and a rate-limited answer carries remaining = 0 and the same    *)
(* reset_at.                                                               *)
C29_RemainingAndReset ==
    \A i \in DOMAIN calls :
        Found(i) /\ Ran(i, "rate") =>
            LET reported == calls[i].snap.rate_limit_max - Cardinality(calls[i].seen) - 1
                reset == (calls[i].t + WindowTicks(i)) \div TicksPerSec
            IN  /\ calls[i].reset_at = reset
                /\ Admitted(i) => calls[i].remaining = reported /\ reported >= 0
                /\ Done(i) /\ calls[i].resp.valid =>
                       calls[i].resp.remaining = reported /\ calls[i].resp.reset_at = reset
                /\ Done(i) /\ Error(i) = "Rate limit exceeded" =>
                       calls[i].resp.remaining = 0 /\ calls[i].resp.reset_at = reset

(* against a ceiling of one: a verification that succeeded with nothing    *)
(* left, and a later one that was rate-limited, each with the reset time   *)
(* of its own clock value                                                  *)
C29_Witness ==
    \E i, j \in DOMAIN calls :
        /\ calls[i].key = calls[j].key /\ Found(i) /\ calls[i].snap.rate_limit_max = 1
        /\ Done(i) /\ calls[i].resp.valid /\ calls[i].resp.remaining = 0
        /\ Done(j) /\ Error(j) = "Rate limit exceeded" /\ calls[j].resp.remaining = 0
        /\ calls[j].t > calls[i].t
        /\ calls[j].resp.reset_at > calls[i].resp.reset_at

-----------------------------------------------------------------------------
(* C30: check_rate_limit evicts exactly the entries whose timestamp is     *)
(* strictly less than now - window_seconds, so an entry recorded exactly   *)
(* window_seconds ago is still counted against the ceiling; and get_usage  *)
(* counts the same entries that check_rate_limit would count at the same   *)
(* instant.                                                                *)
C30_EvictStep ==
    \A i \in DOMAIN calls :
        calls[i].pc = "rate" /\ calls'[i].pc # "rate" /\ calls'[i].fault = "" =>
            calls'[i].seen =
                {m \in Members(calls[i].key) : m >= calls[i].t - WindowTicks(i)}

C30_UsageAgrees ==
    \A k \in KeyIds :
        LET w == WindowOf(keys[k])
        IN  get_usage(k, now, w) = PipelineCount(k, now, w)

C30_StrictEviction == [] C30_UsageAgrees /\ [][C30_EvictStep]_vars

(* ceiling one, window W: a call admitted at t, a call denied in between   *)
(* (which kept the sorted set alive), and a call made exactly W after the  *)
(* first that did not count the first call's entry and was admitted        *)
C30_Witness ==
    \E j, m, i \in DOMAIN calls :
        /\ j < m /\ m < i /\ calls[j].key = calls[i].key /\ calls[m].key = calls[i].key
        /\ Found(i) /\ calls[i].snap.rate_limit_max = 1
        /\ Done(j) /\ Admitted(j) /\ calls[j].resp.valid
        /\ Done(m) /\ Error(m) = "Rate limit exceeded" /\ calls[m].t > calls[j].t
        /\ calls[i].t - calls[j].t = WindowTicks(i)
        /\ calls[m].seen = {calls[j].t}
        /\ Ran(i, "rate") /\ Admitted(i) /\ calls[j].t \notin calls[i].seen

-----------------------------------------------------------------------------
(* C31: the audit entry a verification writes agrees with the response it  *)
(* returns.  In the step in which a request for an existing key returns,   *)
(* one 'verify' row for that key is appended; its success flag is the      *)
(* response's valid flag, its reason names the check that failed (revoked, *)
(* expired, ip_blocked, rate_limited, usage_exceeded) and is empty         *)
(* (Python None) exactly when the response is valid.                       *)

ReasonOfResponse(resp) ==
    CASE resp.valid -> NoneStr
      [] resp.error = "Key revoked" -> "revoked"
      [] resp.error = "Key expired" -> "expired"
      [] resp.error = "IP not allowed" -> "ip_blocked"
      [] resp.error = "Rate limit exceeded" -> "rate_limited"
      [] resp.error = "Usage limit exceeded" -> "usage_exceeded"
      [] OTHER -> "?"

C31_ReturnStep ==
    \A i \in DOMAIN calls' :
        (Stepped(i) /\ calls'[i].pc = "done" /\ calls'[i].key # 0) =>
            /\ Len(audit') = Len(audit) + 1
            /\ LET row == audit'[Len(audit')]
               IN  /\ row.action = "verify"
                   /\ row.api_key_id = calls'[i].key
                   /\ row.context.success = calls'[i].resp.valid
                   /\ row.context.reason = ReasonOfResponse(calls'[i].resp)
                   /\ (row.context.reason = NoneStr) = calls'[i].resp.valid

C31_AuditAgreesWithResponse == [][C31_ReturnStep]_vars

(* three requests returned, one valid and two refused for different        *)
(* reasons, and the trail holds their three rows in that order             *)
C31_Witness ==
    /\ Len(calls) = 3 /\ \A i \in DOMAIN calls : Done(i) /\ Found(i)
    /\ calls[1].resp.valid
    /\ ~calls[2].resp.valid /\ ~calls[3].resp.valid /\ Error(2) # Error(3)
    /\ Len(audit) = 4
    /\ \A i \in 1 .. 3 : /\ audit[i + 1].action = "verify"
                         /\ audit[i + 1].context.success = calls[i].resp.valid
                         /\ audit[i + 1].context.reason = ReasonOfResponse(calls[i].resp)

-----------------------------------------------------------------------------
(* C32: what a verification changes on the key record.  In the step in     *)
(* which a request for an existing key returns: a refused request leaves   *)
(* the record as it was (remaining_uses and last_used_at included); a      *)
(* valid one sets last_used_at to the current time, lowers remaining_uses  *)
(* by exactly 1 when a quota is configured (and leaves it unset when       *)
(* not), and changes no other field.  No other record changes.             *)

CountedFields == {"remaining_uses", "last_used_at"}

C32_ReturnStep ==
    \A i \in DOMAIN calls' :
        (Stepped(i) /\ calls'[i].pc = "done" /\ calls'[i].key # 0) =>
            LET k == calls'[i].key
            IN  /\ \A o \in KeyIds \ {k} : keys'[o] = keys[o]
                /\ \A f \in DOMAIN keys[k] \ CountedFields : keys'[k][f] = keys[k][f]
                /\ IF calls'[i].resp.valid
                   THEN /\ keys'[k].last_used_at = now
                        /\ keys'[k].remaining_uses =
                              IF keys[k].remaining_uses = None THEN None
                              ELSE keys[k].remaining_uses - 1
                   ELSE /\ keys'[k].last_used_at = keys[k].last_used_at
                        /\ keys'[k].remaining_uses = keys[k].remaining_uses

C32_VerifyEffect == [][C32_ReturnStep]_vars

(* two requests that both loaded remaining_uses = 2 and both returned      *)
(* valid, the second at a later clock value: the record holds 1 and the    *)
(* time of the second, so the second success stamped last_used_at and      *)
(* lowered nothing                                                         *)
C32_Witness ==
    /\ Len(calls) = 2 /\ Done(1) /\ Done(2)
    /\ calls[1].resp.valid /\ calls[2].resp.valid
    /\ calls[1].snap.remaining_uses = 2 /\ calls[2].snap.remaining_uses = 2
    /\ keys[1].remaining_uses = 1
    /\ keys[1].last_used_at = now /\ now > calls[2].t

-----------------------------------------------------------------------------
(* C33: every admitted check_rate_limit call contributes an entry of its   *)
(* own.  Whenever no request is in flight, the number of entries recorded  *)
(* for a key is the number of calls admitted for it within the last        *)
(* window_seconds (a call made exactly window_seconds ago may be counted   *)
(* or not), also when two calls read the same clock value.                 *)

AdmittedSince(k, from) ==
    {i \in DOMAIN calls : calls[i].key = k /\ Admitted(i) /\ calls[i].t >= from}

C33_EntryPerAdmittedCall ==
    InFlight = {} =>
        \A k \in KeyIds :
            LET w == WindowOf(keys[k]) * TicksPerSec
                entries == Cardinality(Members(k))
            IN  /\ Cardinality(AdmittedSince(k, now - w + 1)) <= entries
                /\ entries <= Cardinality(AdmittedSince(k, now - w))

(* two requests that read the same clock value were both admitted, and the *)
(* sorted set holds one entry                                              *)
C33_Witness ==
    /\ InFlight = {} /\ Len(calls) = 2
    /\ calls[1].key = 1 /\ calls[2].key = 1
    /\ Admitted(1) /\ Admitted(2) /\ calls[1].t = calls[2].t
    /\ now - calls[1].t < WindowOf(keys[1]) * TicksPerSec
    /\ Cardinality(Members(1)) = 1

-----------------------------------------------------------------------------
(* C34: check_rate_limit denies a call only when at least max_requests     *)
(* admitted calls lie within the trailing window of the call's clock value *)
(* (a call made exactly window_seconds earlier counts, and so does one     *)
(* that read a later clock value); the entry a concurrent call added       *)
(* before being denied is not a reason to deny.                            *)

Denied(i) == Ran(i, "rate") /\ ~Admitted(i)

AdmittedInWindowOf(i) ==
    {j \in DOMAIN calls \ {i} :
        /\ calls[j].key = calls[i].key /\ Admitted(j)
        /\ calls[i].t - WindowTicks(i) <= calls[j].t}

C34_DeniedOnlyWhenFull ==
    \A i \in DOMAIN calls :
        (Found(i) /\ Denied(i)) =>
            Cardinality(AdmittedInWindowOf(i)) >= calls[i].snap.rate_limit_max

(* a call was denied although no admitted call lay in its window: the one  *)
(* entry its pipeline counted was the entry of another denied call, whose  *)
(* ZREM had not run yet                                                    *)
C34_Witness ==
    \E a, b \in DOMAIN calls :
        /\ a # b /\ Found(a) /\ calls[a].key = calls[b].key
        /\ Denied(a) /\ calls[a].pc = "deny"
        /\ Denied(b) /\ calls[b].seen = {calls[a].t} /\ calls[b].t > calls[a].t
        /\ AdmittedInWindowOf(b) = {}

-----------------------------------------------------------------------------
(* C35: a verification that reaches the usage step has consumed one        *)
(* rate-limit slot, and keeps it whatever the usage check answers.  While  *)
(* the clock value of such a request lies within the window, its entry is  *)
(* recorded for the key; and a request that follows max_requests requests  *)
(* which reached the usage step inside its window is answered 'Rate limit  *)
(* exceeded', so the requests to a key whose quota is used up turn into    *)
(* rate-limit refusals within one window.                                  *)

ReachedUsage(i) == Found(i) /\ Done(i) /\ Ran(i, "rate") /\ Admitted(i)

C35_SlotsOf(j) ==
    {i \in 1 .. (j - 1) :
        /\ calls[i].key = calls[j].key /\ ReachedUsage(i)
        /\ calls[i].t > calls[j].t - WindowTicks(j) /\ calls[i].t <= calls[j].t}

C35_SlotKept ==
    \A i \in DOMAIN calls :
        (ReachedUsage(i) /\ now - calls[i].t < WindowTicks(i)) =>
            calls[i].t \in Members(calls[i].key)

C35_TurnsIntoRateLimit ==
    \A j \in DOMAIN calls :
        (Found(j) /\ Ran(j, "rate")
            /\ Cardinality(C35_SlotsOf(j)) >= calls[j].snap.rate_limit_max) => Denied(j)

C35_UsageRefusalKeepsSlot == C35_SlotKept /\ C35_TurnsIntoRateLimit

(* a request refused with 'Usage limit exceeded' and, on the same clock    *)
(* value, a request refused with 'Rate limit exceeded' after it: the       *)
(* window no longer holds the entry of the first                           *)
C35_Witness ==
    \E i, j \in DOMAIN calls :
        /\ i < j /\ calls[i].key = calls[j].key /\ calls[i].t = calls[j].t
        /\ ReachedUsage(i) /\ Error(i) = "Usage limit exceeded"
        /\ Done(j) /\ Error(j) = "Rate limit exceeded"
        /\ now - calls[i].t < WindowTicks(i)
        /\ calls[i].t \notin Members(calls[i].key)

-----------------------------------------------------------------------------
(* C36: a key that has delete_protection changes from unrevoked to revoked *)
(* only in a revoke_key call with force=true: no step of rotate_key,       *)
(* update_key, verify_key or revoke_key without force revokes it.          *)
C36_RevokeOfProtected ==
    \A k \in KeyIds :
        (keys[k].delete_protection /\ ~keys[k].revoked /\ keys'[k].revoked) =>
            revoke_key(k, TRUE)

C36_OnlyForceRevokes == [][C36_RevokeOfProtected]_vars

(* a protected key that is revoked, with no "revoke" row in its audit      *)
(* trail: it was rotated                                                   *)
C36_Witness ==
    \E k \in KeyIds :
        /\ keys[k].delete_protection /\ keys[k].revoked
        /\ ~Updated(k)
        /\ \A n \in DOMAIN audit : audit[n].api_key_id = k => audit[n].action # "revoke"
        /\ \E n \in DOMAIN audit : audit[n].api_key_id = k /\ audit[n].action = "rotate_old"

-----------------------------------------------------------------------------
(* C37: no operation on a key that is already revoked yields a usable      *)
(* credential.  A revoked key stays revoked, rotate_key called on a        *)
(* revoked key adds no unrevoked key, and no verification succeeds for a   *)
(* key that was made by rotating a key revoked before the rotation.        *)

(* o was revoked by revoke_key before it was rotated *)
RevokedBeforeRotation(o) ==
    \E r, m \in DOMAIN audit :
        /\ r < m
        /\ audit[r].api_key_id = o /\ audit[r].action = "revoke"
        /\ audit[m].api_key_id = o /\ audit[m].action = "rotate_old"

C37_RevokedKeyStep ==
    \A k \in KeyIds :
        keys[k].revoked =>
            /\ keys'[k].revoked
            /\ \A raw \in Secrets :
                   rotate_key(k, raw) =>
                       \A n \in (1 .. Len(keys')) \ KeyIds : keys'[n].revoked

C37_NoSuccessor ==
    \A i \in DOMAIN calls :
        (Done(i) /\ Found(i) /\ calls[i].resp.valid) =>
            ~(RotatedFrom(calls[i].key) # 0 /\ RevokedBeforeRotation(RotatedFrom(calls[i].key)))

C37_RevokedYieldsNothing == [] C37_NoSuccessor /\ [][C37_RevokedKeyStep]_vars

(* a key was revoked and then rotated, and the secret that rotate_key      *)
(* handed out has verified                                                 *)
C37_Witness ==
    \E i \in DOMAIN calls :
        /\ Done(i) /\ calls[i].resp.valid /\ calls[i].key = 2
        /\ RotatedFrom(2) = 1 /\ RevokedBeforeRotation(1)
        /\ keys[1].revoked /\ ~keys[2].revoked

-----------------------------------------------------------------------------
(* C38: get_key, update_key, revoke_key and rotate_key act only on keys    *)
(* whose Api is owned by the caller.  For a caller who does not own the    *)
(* key's Api (or a key id that does not exist) get_key answers 404 'Key    *)
(* not found', and a call of update_key, revoke_key or rotate_key leaves   *)
(* every key record and the audit trail as they were; for the owner        *)
(* get_key answers the record.                                             *)

Foreign(u, k) == k \notin KeyIds \/ ApiOwner(keys[k].api_id) # u

C38_GetKey ==
    \A u \in Users, k \in 1 .. MaxKeys :
        IF Foreign(u, k)
        THEN get_key(u, k).status = 404 /\ get_key(u, k).detail = "Key not found"
        ELSE get_key(u, k).status = 200 /\ get_key(u, k).body.id = k

C38_ForeignStep ==
    \A u \in Users, k \in 1 .. MaxKeys :
        Foreign(u, k) =>
            /\ \A data \in UpdateReqs : update_key_by(u, k, data) => UNCHANGED <<keys, audit>>
            /\ \A force \in BOOLEAN : revoke_key_by(u, k, force) => UNCHANGED <<keys, audit>>
            /\ \A raw \in Secrets : rotate_key_by(u, k, raw) => UNCHANGED <<keys, audit>>

C38_OwnerOnly == [] C38_GetKey /\ [][C38_ForeignStep]_vars

(* an unprotected key in an Api of u2 after two handler calls: the trail   *)
(* holds its creation and one revocation, so one call was refused with     *)
(* 404, and u1 still cannot read the key                                   *)
C38_Witness ==
    /\ Len(keys) = 1 /\ keys[1].api_id = "api2" /\ ~keys[1].delete_protection
    /\ ops = 2 /\ Len(audit) = 2 /\ audit[2].action = "revoke" /\ keys[1].revoked
    /\ get_key("u1", 1).status = 404 /\ get_key("u2", 1).status = 200

-----------------------------------------------------------------------------
(* C39: after update_key succeeds, every field the request supplied holds  *)
(* the supplied value on the stored key (metadata in the column meta), the *)
(* fields it did not supply are unchanged, and one 'update' audit row      *)
(* lists the supplied fields; a verification started afterwards works on   *)
(* the stored record and a valid response returns its owner_id and         *)
(* metadata.                                                               *)

(* api_key.py line 35: the column that holds the key's metadata *)
ColumnOf(field) == IF field = "metadata" THEN "meta" ELSE field

C39_UpdateStep ==
    \A k \in KeyIds, data \in FieldUpdateReqs :
        update_key(k, data) =>
            /\ \A f \in DOMAIN data : keys'[k][ColumnOf(f)] = data[f]
            /\ \A g \in DOMAIN keys[k] \ {ColumnOf(f) : f \in DOMAIN data} :
                   keys'[k][g] = keys[k][g]
            /\ \A o \in KeyIds \ {k} : keys'[o] = keys[o]
            /\ audit' = Append(audit, AuditRow(k, "update", [updated_fields |-> DOMAIN data]))

C39_VerifyStep ==
    \A i \in DOMAIN calls' \ DOMAIN calls :
        calls'[i].key # 0 => calls'[i].snap = keys[calls'[i].key]

C39_Returned ==
    \A i \in DOMAIN calls :
        (Done(i) /\ Found(i) /\ calls[i].resp.valid) =>
            /\ calls[i].resp.owner_id = calls[i].snap.owner_id
            /\ calls[i].resp.metadata = calls[i].snap.meta

C39_UpdateTakesEffect == [] C39_Returned /\ [][C39_UpdateStep /\ C39_VerifyStep]_vars

(* update_key was called with metadata and wrote its audit row; the record *)
(* still holds the metadata it was created with, and a verification made   *)
(* after the update returned it                                            *)
C39_Witness ==
    \E n \in DOMAIN audit, i \in DOMAIN calls :
        /\ audit[n].action = "update" /\ "metadata" \in audit[n].context.updated_fields
        /\ n < Len(audit) /\ audit[Len(audit)] = VerifyRow(calls[i].key, TRUE, NoneStr)
        /\ i = Len(calls) /\ Done(i) /\ calls[i].resp.valid
        /\ calls[i].key = audit[n].api_key_id
        /\ calls[i].resp.metadata = "plan=free"
        /\ keys[calls[i].key].meta = "plan=free"

-----------------------------------------------------------------------------
(* C40: the rate-limit step runs for every key whose rate_limit_max is     *)
(* set; only a key with no ceiling skips it.  A request that passed the    *)
(* revocation, expiry and IP checks on a key with a ceiling has run, or is *)
(* about to run, check_rate_limit; no verification of a key whose ceiling  *)
(* is 0 is valid; and a key as create_key stored it has a ceiling of at    *)
(* least 1.                                                                *)

LocalErrors == {"Key revoked", "Key expired", "IP not allowed"}

PassedLocalChecks(i) == Found(i) /\ Error(i) \notin LocalErrors

C40_RateStepRuns ==
    \A i \in DOMAIN calls :
        (PassedLocalChecks(i) /\ calls[i].snap.rate_limit_max # None) =>
            calls[i].pc = "rate" \/ Ran(i, "rate")

C40_ZeroAdmitsNone ==
    \A i \in DOMAIN calls :
        (Found(i) /\ Done(i) /\ calls[i].snap.rate_limit_max = 0) => ~calls[i].resp.valid

C40_CreatedCeiling ==
    \A k \in KeyIds :
        ~Updated(k) => keys[k].rate_limit_max # None /\ keys[k].rate_limit_max >= 1

C40_CeilingAlwaysChecked == C40_RateStepRuns /\ C40_ZeroAdmitsNone /\ C40_CreatedCeiling

(* the key's ceiling was set to 0 by update_key, and a verification of it  *)
(* returned valid without having called check_rate_limit                   *)
C40_Witness ==
    \E i \in DOMAIN calls :
        /\ Done(i) /\ Found(i) /\ calls[i].resp.valid
        /\ calls[i].snap.rate_limit_max = 0 /\ keys[calls[i].key].rate_limit_max = 0
        /\ ~Ran(i, "rate") /\ window[calls[i].key] = {}
        /\ Updated(calls[i].key)

====
